---- MODULE Spec2Model ----
(***************************************************************************)
(* Time-travel metadata of the Hummock version store:                      *)
(*   meta/src/hummock/manager/time_travel.rs   (write, resolve, truncate)  *)
(*   storage/hummock_sdk/src/time_travel.rs    (strip / refill)            *)
(* The four SQL tables are the state; every transaction is one action; the *)
(* reads of epoch_to_version, which run outside any transaction, are one   *)
(* action each in SpecConc.                                                *)
(***************************************************************************)
EXTENDS Integers, Sequences, FiniteSets, TLC

\* ------------------------------------------------------------------ bounds
MaxCommits == 3
MaxCompactions == 2
FetchBatchSize == 2

\* Registry fetches of one call that are kept in its history.
MaxFetches == 6
\* Largest configured RW_TIME_TRAVEL_SST_INFO_FETCH_BATCH_SIZE tried.
MaxBatchSize == 3
\* Commits of the histories on which the fetch loop is followed.
MaxFetchCommits == 5

\* The single compaction group and the single table of the modelled pipeline.
GroupId == 2
TableId == 1

\* --------------------------------------------------------------- sequences
RECURSIVE Concat(_)
Concat(ss) == IF ss = <<>> THEN <<>> ELSE Head(ss) \o Concat(Tail(ss))

RECURSIVE SetToSeq(_)
SetToSeq(S) ==
    IF S = {} THEN <<>>
    ELSE LET m == CHOOSE x \in S : \A y \in S : x <= y
         IN <<m>> \o SetToSeq(S \ {m})

Range(s) == {s[i] : i \in 1..Len(s)}

\* ------------------------------------------------------------- SstableInfo
\* The full metadata the pipeline attaches to file i (object id, size, ...).
FullSst(i) == [sst_id |-> i, object_id |-> i + 10, file_size |-> i + 100]

stripped_sstable_info_KeepObject(origin) ==
    [sst_id |-> origin.sst_id, object_id |-> origin.object_id, file_size |-> 0]

stripped_sstable_info(origin) ==
    [sst_id |-> origin.sst_id, object_id |-> 0, file_size |-> 0]

stripped_epoch_new_change_log(origin) ==
    [old_value |-> [i \in 1..Len(origin.old_value) |->
                        stripped_sstable_info(origin.old_value[i])],
     new_value |-> [i \in 1..Len(origin.new_value) |->
                        stripped_sstable_info(origin.new_value[i])],
     epochs    |-> origin.epochs]

stripped_change_log_delta(origin) ==
    [new_log        |-> stripped_epoch_new_change_log(origin.new_log),
     truncate_epoch |-> origin.truncate_epoch]

stripped_level(origin) ==
    [level_idx       |-> origin.level_idx,
     table_infos     |-> [i \in 1..Len(origin.table_infos) |->
                              stripped_sstable_info(origin.table_infos[i])],
     total_file_size |-> origin.total_file_size,
     sub_level_id    |-> origin.sub_level_id]

stripped_l0(origin) ==
    [sub_levels      |-> [i \in 1..Len(origin.sub_levels) |->
                              stripped_level(origin.sub_levels[i])],
     total_file_size |-> origin.total_file_size]

\* member_table_ids is not copied: the stripped group keeps the default.
stripped_levels(origin) ==
    [levels           |-> [i \in 1..Len(origin.levels) |->
                               stripped_level(origin.levels[i])],
     l0               |-> stripped_l0(origin.l0),
     group_id         |-> origin.group_id,
     member_table_ids |-> {}]

stripped_intra_level_delta(origin) ==
    [delta_type           |-> origin.delta_type,
     level_idx            |-> origin.level_idx,
     l0_sub_level_id      |-> origin.l0_sub_level_id,
     removed_table_ids    |-> origin.removed_table_ids,
     inserted_table_infos |-> [i \in 1..Len(origin.inserted_table_infos) |->
                                   stripped_sstable_info(origin.inserted_table_infos[i])]]

\* GroupConstruct and GroupDestroy are cloned; the arms for GroupMetaChange
\* and GroupTableChange are unreachable!() in the code, and no delta of the
\* model carries them.
stripped_group_delta(origin) ==
    IF origin.delta_type = "IntraLevel"
    THEN stripped_intra_level_delta(origin)
    ELSE origin

stripped_group_deltas(origin) ==
    [i \in 1..Len(origin) |-> stripped_group_delta(origin[i])]

visible_table_safe_epoch(version) == version.safe_epoch

\* IncompleteHummockVersion::from(&HummockVersion)
IncompleteHummockVersion(version) ==
    [id                  |-> version.id,
     levels              |-> [g \in DOMAIN version.levels |->
                                  stripped_levels(version.levels[g])],
     max_committed_epoch |-> version.max_committed_epoch,
     safe_epoch          |-> visible_table_safe_epoch(version),
     table_watermarks    |-> version.table_watermarks,
     table_change_log    |-> [t \in DOMAIN version.table_change_log |->
                                  [i \in 1..Len(version.table_change_log[t]) |->
                                       stripped_epoch_new_change_log(
                                           version.table_change_log[t][i])]],
     state_table_info    |-> version.state_table_info]

\* IncompleteHummockVersionDelta::from(&HummockVersionDelta)
IncompleteHummockVersionDelta(delta) ==
    [id                  |-> delta.id,
     prev_id             |-> delta.prev_id,
     group_deltas        |-> [g \in DOMAIN delta.group_deltas |->
                                  stripped_group_deltas(delta.group_deltas[g])],
     max_committed_epoch |-> delta.max_committed_epoch,
     safe_epoch          |-> delta.safe_epoch,
     trivial_move        |-> delta.trivial_move,
     new_table_watermarks   |-> delta.new_table_watermarks,
     removed_table_ids      |-> delta.removed_table_ids,
     change_log_delta    |-> [t \in DOMAIN delta.change_log_delta |->
                                  stripped_change_log_delta(delta.change_log_delta[t])],
     state_table_info_delta |-> delta.state_table_info_delta]

\* ------------------------------------------------------------------ refill
\* sst_id_to_info.get(id).unwrap_or_else(panic): the caller checks that every
\* id is present before refilling.
refill_sstable_info(sstable_info, sst_id_to_info) ==
    sst_id_to_info[sstable_info.sst_id]

refill_level(level, sst_id_to_info) ==
    [level EXCEPT !.table_infos =
        [i \in 1..Len(level.table_infos) |->
             refill_sstable_info(level.table_infos[i], sst_id_to_info)]]

refill_table_change_log_NewOnly(table_change_log, sst_id_to_info) ==
    [i \in 1..Len(table_change_log) |->
        [table_change_log[i] EXCEPT
            !.new_value = [j \in 1..Len(table_change_log[i].new_value) |->
                refill_sstable_info(table_change_log[i].new_value[j], sst_id_to_info)]]]

refill_table_change_log(table_change_log, sst_id_to_info) ==
    [i \in 1..Len(table_change_log) |->
        [table_change_log[i] EXCEPT
            !.old_value = [j \in 1..Len(table_change_log[i].old_value) |->
                refill_sstable_info(table_change_log[i].old_value[j], sst_id_to_info)],
            !.new_value = [j \in 1..Len(table_change_log[i].new_value) |->
                refill_sstable_info(table_change_log[i].new_value[j], sst_id_to_info)]]]

refill_version(version, sst_id_to_info) ==
    [version EXCEPT
        !.levels = [g \in DOMAIN version.levels |->
            [version.levels[g] EXCEPT
                !.l0.sub_levels = [i \in 1..Len(version.levels[g].l0.sub_levels) |->
                    refill_level(version.levels[g].l0.sub_levels[i], sst_id_to_info)],
                !.levels = [i \in 1..Len(version.levels[g].levels) |->
                    refill_level(version.levels[g].levels[i], sst_id_to_info)]]],
        !.table_change_log = [t \in DOMAIN version.table_change_log |->
            refill_table_change_log(version.table_change_log[t], sst_id_to_info)]]

\* ----------------------------------------------------- version and delta
\* HummockVersion / HummockVersionDelta accessors and apply_version_delta
\* (hummock_sdk version.rs), as section 3 and 4.3 of the design describe them.
LevelSstInfos(level) == level.table_infos

LevelsSstInfos(levels) ==
    Concat([i \in 1..Len(levels.l0.sub_levels) |->
                LevelSstInfos(levels.l0.sub_levels[i])])
    \o Concat([i \in 1..Len(levels.levels) |-> LevelSstInfos(levels.levels[i])])

ChangeLogSstInfos(log) ==
    Concat([i \in 1..Len(log) |-> log[i].old_value \o log[i].new_value])

get_sst_infos(version) ==
    LET gs == SetToSeq(DOMAIN version.levels)
        ts == SetToSeq(DOMAIN version.table_change_log)
    IN Concat([i \in 1..Len(gs) |-> LevelsSstInfos(version.levels[gs[i]])])
       \o Concat([i \in 1..Len(ts) |->
                      ChangeLogSstInfos(version.table_change_log[ts[i]])])

get_sst_ids(version) == {s.sst_id : s \in Range(get_sst_infos(version))}

GroupDeltaSstInfos(gd) ==
    IF gd.delta_type = "IntraLevel" THEN gd.inserted_table_infos ELSE <<>>

newly_added_sst_infos(delta) ==
    LET gs == SetToSeq(DOMAIN delta.group_deltas)
        ts == SetToSeq(DOMAIN delta.change_log_delta)
    IN Concat([i \in 1..Len(gs) |->
                   Concat([j \in 1..Len(delta.group_deltas[gs[i]]) |->
                               GroupDeltaSstInfos(delta.group_deltas[gs[i]][j])])])
       \o Concat([i \in 1..Len(ts) |->
                      delta.change_log_delta[ts[i]].new_log.old_value
                      \o delta.change_log_delta[ts[i]].new_log.new_value])

newly_added_sst_ids(delta) == {s.sst_id : s \in Range(newly_added_sst_infos(delta))}

EmptyLevels(g) ==
    [levels           |-> <<[level_idx |-> 1, table_infos |-> <<>>,
                             total_file_size |-> 0, sub_level_id |-> 0]>>,
     l0               |-> [sub_levels |-> <<>>, total_file_size |-> 0],
     group_id         |-> g,
     member_table_ids |-> {}]

RemoveSsts(level, removed) ==
    [level EXCEPT !.table_infos =
        SelectSeq(level.table_infos, LAMBDA s : s.sst_id \notin removed)]

NonEmptyLevel(level) == level.table_infos # <<>>

\* One IntraLevel delta: removals from the addressed tier, then insertions
\* (a new L0 sub-level, or appended to the sorted tier).
ApplyIntraLevel(levels, gd) ==
    IF gd.level_idx = 0
    THEN LET kept == SelectSeq(
                 [i \in 1..Len(levels.l0.sub_levels) |->
                      RemoveSsts(levels.l0.sub_levels[i], gd.removed_table_ids)],
                 NonEmptyLevel)
             added == IF gd.inserted_table_infos = <<>> THEN <<>>
                      ELSE <<[level_idx       |-> 0,
                              table_infos     |-> gd.inserted_table_infos,
                              total_file_size |-> 0,
                              sub_level_id    |-> gd.l0_sub_level_id]>>
         IN [levels EXCEPT !.l0.sub_levels = kept \o added]
    ELSE [levels EXCEPT !.levels[gd.level_idx] =
             LET l == RemoveSsts(levels.levels[gd.level_idx], gd.removed_table_ids)
             IN [l EXCEPT !.table_infos = l.table_infos \o gd.inserted_table_infos]]

RECURSIVE ApplyGroupDeltas(_, _)
ApplyGroupDeltas(levels, gds) ==
    IF gds = <<>> THEN levels
    ELSE ApplyGroupDeltas(ApplyIntraLevel(levels, Head(gds)), Tail(gds))

ApplyChangeLogDelta(log, cld) ==
    SelectSeq(log \o <<cld.new_log>>,
              LAMBDA c : \E i \in 1..Len(c.epochs) : c.epochs[i] > cld.truncate_epoch)

\* The caller must have version.id = delta.prev_id (asserted by the code).
apply_version_delta(version, delta) ==
    [version EXCEPT
        !.id = delta.id,
        !.max_committed_epoch = delta.max_committed_epoch,
        !.safe_epoch = delta.safe_epoch,
        !.levels = [g \in DOMAIN version.levels |->
            IF g \in DOMAIN delta.group_deltas
            THEN ApplyGroupDeltas(version.levels[g], delta.group_deltas[g])
            ELSE version.levels[g]],
        !.table_change_log = [t \in DOMAIN version.table_change_log |->
            IF t \in DOMAIN delta.change_log_delta
            THEN ApplyChangeLogDelta(version.table_change_log[t],
                                     delta.change_log_delta[t])
            ELSE version.table_change_log[t]]]

\* from_persisted_protobuf(IncompleteHummockVersion::to_protobuf(..)): the
\* persisted row carries every field of the stripped value.
from_persisted_protobuf(pb) == pb

\* --------------------------------------------------------------- the store
\* A store value is the content of the four tables, each a function from its
\* primary key to the row.
EmptyFn == [x \in {} |-> 0]

Put(f, k, v) == [x \in DOMAIN f \cup {k} |-> IF x = k THEN v ELSE f[x]]

DeleteKeys(f, ks) == [x \in DOMAIN f \ ks |-> f[x]]

Max(S) == CHOOSE x \in S : \A y \in S : y <= x

DescSeq_Asc(S) == SetToSeq(S)

RECURSIVE DescSeq(_)
DescSeq(S) == IF S = {} THEN <<>> ELSE <<Max(S)>> \o DescSeq(S \ {Max(S)})

EmptyStore ==
    [epoch_to_version    |-> EmptyFn,
     time_travel_version |-> EmptyFn,
     time_travel_delta   |-> EmptyFn,
     sstable_info        |-> EmptyFn]

\* INSERT ... ON CONFLICT (sst_id) DO NOTHING, one statement per SstableInfo.
InsertSstableInfo_Upsert(table, sst_info) ==
    Put(table, sst_info.sst_id,
        [object_id |-> sst_info.object_id, sstable_info |-> sst_info])

InsertSstableInfo(table, sst_info) ==
    IF sst_info.sst_id \in DOMAIN table
    THEN table
    ELSE Put(table, sst_info.sst_id,
             [object_id |-> sst_info.object_id, sstable_info |-> sst_info])

RECURSIVE write_sstable_infos(_, _)
write_sstable_infos(table, sst_infos) ==
    IF sst_infos = <<>> THEN table
    ELSE write_sstable_infos(InsertSstableInfo(table, Head(sst_infos)),
                             Tail(sst_infos))

InsertOrIgnore_Replace(table, key, row) == Put(table, key, row)

\* INSERT ... ON CONFLICT (version_id) DO NOTHING
InsertOrIgnore(table, key, row) ==
    IF key \in DOMAIN table THEN table ELSE Put(table, key, row)

NoVersion == [some |-> FALSE]
SomeVersion(v) == [some |-> TRUE, version |-> v]

\* write_time_travel_metadata inside the caller's transaction: the resulting
\* working copy, and whether every statement succeeded.  The insert into
\* hummock_epoch_to_version has no conflict clause: a duplicate epoch fails.
write_time_travel_metadata(db, version, delta) ==
    LET epoch      == delta.max_committed_epoch
        version_id == delta.id
    IN IF epoch \in DOMAIN db.epoch_to_version
       THEN [ok |-> FALSE, db |-> db]
       ELSE
       LET db1 == [db EXCEPT !.epoch_to_version = Put(@, epoch, version_id)]
           db2 == IF version.some
                  THEN [db1 EXCEPT
                          !.sstable_info =
                              write_sstable_infos(@, get_sst_infos(version.version)),
                          !.time_travel_version =
                              InsertOrIgnore(@, version.version.id,
                                  IncompleteHummockVersion(version.version))]
                  ELSE db1
           db3 == [db2 EXCEPT
                     !.sstable_info =
                         write_sstable_infos(@, newly_added_sst_infos(delta)),
                     !.time_travel_delta =
                         InsertOrIgnore(@, delta.id,
                             IncompleteHummockVersionDelta(delta))]
       IN [ok |-> TRUE, db |-> db3]

WriteStatements_RowFirst(db, version, delta) ==
    LET s1 == [db EXCEPT !.epoch_to_version =
                   Put(@, delta.max_committed_epoch, delta.id)]
        s2 == [s1 EXCEPT !.time_travel_version =
                   InsertOrIgnore(@, version.version.id,
                       IncompleteHummockVersion(version.version))]
        s3 == [s2 EXCEPT !.sstable_info =
                   write_sstable_infos(@, get_sst_infos(version.version))]
        k  == IF version.some THEN s3 ELSE s1
        s4 == [k EXCEPT !.time_travel_delta =
                   InsertOrIgnore(@, delta.id, IncompleteHummockVersionDelta(delta))]
        s5 == [s4 EXCEPT !.sstable_info =
                   write_sstable_infos(@, newly_added_sst_infos(delta))]
    IN <<s1>> \o (IF version.some THEN <<s2, s3>> ELSE <<>>) \o <<s4, s5>>

\* The transaction's working copy after each statement of a
\* write_time_travel_metadata that succeeds: the epoch insert, then for the
\* version (when given) its SstableInfos and its row, then for the delta its
\* SstableInfos and its row.
WriteStatements(db, version, delta) ==
    LET s1 == [db EXCEPT !.epoch_to_version =
                   Put(@, delta.max_committed_epoch, delta.id)]
        s2 == [s1 EXCEPT !.sstable_info =
                   write_sstable_infos(@, get_sst_infos(version.version))]
        s3 == [s2 EXCEPT !.time_travel_version =
                   InsertOrIgnore(@, version.version.id,
                       IncompleteHummockVersion(version.version))]
        k  == IF version.some THEN s3 ELSE s1
        s4 == [k EXCEPT !.sstable_info =
                   write_sstable_infos(@, newly_added_sst_infos(delta))]
        s5 == [s4 EXCEPT !.time_travel_delta =
                   InsertOrIgnore(@, delta.id, IncompleteHummockVersionDelta(delta))]
    IN <<s1>> \o (IF version.some THEN <<s2, s3>> ELSE <<>>) \o <<s4, s5>>

\* ---------------------------------------------------------------- truncate
\* Where a backing store error can end truncate_time_travel_metadata: every
\* statement is awaited with `?`, which returns and drops the transaction.
\* A failure point names the first statement that fails, among those that
\* find the transaction in a different state: the select of version_watermark
\* (lines 42-59), the first statement after the epochs are deleted (66-126),
\* after the delta loop (145-171), after the version loop (173), after the
\* versions are deleted (184) and the commit (195, or 79 without an anchor).
NoFailure == "none"
StmtFindWatermark == "find version_watermark"
StmtFindEarliest == "after delete epochs"
StmtVersionLoop == "after delta loop"
StmtDeleteVersions == "after version loop"
StmtDeleteDeltas == "after delete versions"
StmtCommit == "commit"
FailPoints ==
    {NoFailure, StmtFindWatermark, StmtFindEarliest, StmtVersionLoop,
     StmtDeleteVersions, StmtDeleteDeltas, StmtCommit}

EpochsBelow_Lowest(db, epoch_watermark) ==
    {e \in DOMAIN db.epoch_to_version :
        /\ e < epoch_watermark
        /\ \A f \in DOMAIN db.epoch_to_version : e <= f}

EpochsBelow_KeepLast(db, epoch_watermark) ==
    {e \in DOMAIN db.epoch_to_version :
        \E f \in DOMAIN db.epoch_to_version : e < f /\ f < epoch_watermark}

EpochsBelow_Above(db, epoch_watermark) ==
    {e \in DOMAIN db.epoch_to_version : e > epoch_watermark}

EpochsBelow_Lte(db, epoch_watermark) ==
    {e \in DOMAIN db.epoch_to_version : e <= epoch_watermark}

\* Epoch.lt(epoch_watermark)
EpochsBelow(db, epoch_watermark) ==
    {e \in DOMAIN db.epoch_to_version : e < epoch_watermark}

EarliestValidCandidates_Any(db, version_watermark_id) ==
    DOMAIN db.time_travel_version

\* VersionId.lte(version_watermark.version_id), order_by_desc, one
EarliestValidCandidates(db, version_watermark_id) ==
    {k \in DOMAIN db.time_travel_version : k <= version_watermark_id}

VersionIdsToDelete_Lte(db, earliest_valid_version_id) ==
    {k \in DOMAIN db.time_travel_version : k <= earliest_valid_version_id}

\* VersionId.lt(earliest_valid_version_id) on hummock_time_travel_version
VersionIdsToDelete(db, earliest_valid_version_id) ==
    {k \in DOMAIN db.time_travel_version : k < earliest_valid_version_id}

DeltaIdsToDelete_OffByOne(db, earliest_valid_version_id) ==
    {k \in DOMAIN db.time_travel_delta : k + 1 < earliest_valid_version_id}

\* VersionId.lt(earliest_valid_version_id) on hummock_time_travel_delta
DeltaIdsToDelete(db, earliest_valid_version_id) ==
    {k \in DOMAIN db.time_travel_delta : k < earliest_valid_version_id}

DeltaSstIdsToDelete_NoFloor(new_sst_ids, earliest_valid_version_sst_ids) ==
    new_sst_ids

\* &new_sst_ids - &earliest_valid_version_sst_ids
DeltaSstIdsToDelete(new_sst_ids, earliest_valid_version_sst_ids) ==
    new_sst_ids \ earliest_valid_version_sst_ids

VersionSstIdsToDelete_Swapped(sst_ids, next_version_sst_ids) ==
    next_version_sst_ids \ sst_ids

\* &sst_ids - &next_version_sst_ids
VersionSstIdsToDelete(sst_ids, next_version_sst_ids) ==
    sst_ids \ next_version_sst_ids

\* for delta_id_to_delete in delta_ids_to_delete { .. }
RECURSIVE DeltaLoop(_, _, _)
DeltaLoop(db, delta_ids_to_delete, earliest_valid_version_sst_ids) ==
    IF delta_ids_to_delete = <<>> THEN [ok |-> TRUE, db |-> db]
    ELSE LET id == Head(delta_ids_to_delete)
         IN IF id \notin DOMAIN db.time_travel_delta
            THEN [ok |-> FALSE, db |-> db]
            ELSE LET new_sst_ids ==
                         newly_added_sst_ids(
                             from_persisted_protobuf(db.time_travel_delta[id]))
                     sst_ids_to_delete ==
                         DeltaSstIdsToDelete(new_sst_ids,
                                             earliest_valid_version_sst_ids)
                 IN DeltaLoop(
                        [db EXCEPT !.sstable_info = DeleteKeys(@, sst_ids_to_delete)],
                        Tail(delta_ids_to_delete),
                        earliest_valid_version_sst_ids)

\* for prev_version_id in version_ids_to_delete { .. }, newest first
RECURSIVE VersionLoop(_, _, _)
VersionLoop(db, version_ids_to_delete, next_version_sst_ids) ==
    IF version_ids_to_delete = <<>> THEN [ok |-> TRUE, db |-> db]
    ELSE LET id == Head(version_ids_to_delete)
         IN IF id \notin DOMAIN db.time_travel_version
            THEN [ok |-> FALSE, db |-> db]
            ELSE LET sst_ids ==
                         get_sst_ids(
                             from_persisted_protobuf(db.time_travel_version[id]))
                     sst_ids_to_delete ==
                         VersionSstIdsToDelete(sst_ids, next_version_sst_ids)
                 IN VersionLoop(
                        [db EXCEPT !.sstable_info = DeleteKeys(@, sst_ids_to_delete)],
                        Tail(version_ids_to_delete),
                        sst_ids)

TruncateErr(db) ==
    [ok |-> FALSE, committed |-> FALSE, db |-> db, anchor |-> 0]

\* The rest of the transaction once the anchor keyframe
\* earliest_valid_version_id was found.
TruncateBelow(db1, earliest_valid_version_id, fail) ==
    LET version_ids_to_delete ==
            DescSeq(VersionIdsToDelete(db1, earliest_valid_version_id))
        delta_ids_to_delete ==
            SetToSeq(DeltaIdsToDelete(db1, earliest_valid_version_id))
    IN IF earliest_valid_version_id \notin DOMAIN db1.time_travel_version
       THEN TruncateErr(db1)
       ELSE
       LET earliest_valid_version_sst_ids ==
               get_sst_ids(from_persisted_protobuf(
                   db1.time_travel_version[earliest_valid_version_id]))
           r2 == DeltaLoop(db1, delta_ids_to_delete, earliest_valid_version_sst_ids)
       IN IF ~r2.ok \/ fail = StmtVersionLoop
          THEN TruncateErr(r2.db)
          ELSE
          LET r3 == VersionLoop(r2.db, version_ids_to_delete,
                                earliest_valid_version_sst_ids)
          IN IF ~r3.ok \/ fail = StmtDeleteVersions
             THEN TruncateErr(r3.db)
             ELSE
             LET db4 == [r3.db EXCEPT !.time_travel_version =
                            DeleteKeys(@, VersionIdsToDelete(r3.db,
                                              earliest_valid_version_id))]
             IN IF fail = StmtDeleteDeltas
                THEN TruncateErr(db4)
                ELSE
                LET db5 == [db4 EXCEPT !.time_travel_delta =
                               DeleteKeys(@, DeltaIdsToDelete(db4,
                                                 earliest_valid_version_id))]
                IN IF fail = StmtCommit
                   THEN TruncateErr(db5)
                   ELSE [ok |-> TRUE, committed |-> TRUE, db |-> db5,
                         anchor |-> earliest_valid_version_id]

\* The transaction of truncate_time_travel_metadata: whether it returned Ok,
\* whether it reached txn.commit(), its working copy when it returned and
\* the anchor keyframe it found (0: none).
truncate_time_travel_metadata(db, epoch_watermark, fail) ==
    IF fail = StmtFindWatermark THEN TruncateErr(db)
    ELSE IF EpochsBelow(db, epoch_watermark) = {}
    THEN [ok |-> TRUE, committed |-> FALSE, db |-> db, anchor |-> 0]
    ELSE
    LET version_watermark_id ==
            db.epoch_to_version[Max(EpochsBelow(db, epoch_watermark))]
        db1 == [db EXCEPT !.epoch_to_version =
                   DeleteKeys(@, EpochsBelow(db, epoch_watermark))]
    IN IF fail = StmtFindEarliest THEN TruncateErr(db1)
       ELSE IF EarliestValidCandidates(db1, version_watermark_id) = {}
       THEN IF fail # NoFailure THEN TruncateErr(db1)
            ELSE [ok |-> TRUE, committed |-> TRUE, db |-> db1, anchor |-> 0]
       ELSE TruncateBelow(db1,
                Max(EarliestValidCandidates(db1, version_watermark_id)), fail)

TxnOutcome_Autocommit(db, r) == r.db

\* What the store holds once the call has returned: a transaction dropped
\* without commit is rolled back.
TxnOutcome(db, r) == IF r.committed THEN r.db ELSE db

\* ----------------------------------------------------------------- resolve
\* The reads of epoch_to_version, one operator per statement; each statement
\* runs on the connection, outside any transaction.

FindEpochToVersion_Lt(db, query_epoch) ==
    LET c == {e \in DOMAIN db.epoch_to_version : e < query_epoch}
    IN IF c = {} THEN [found |-> FALSE, epoch |-> 0, version_id |-> 0]
       ELSE [found |-> TRUE, epoch |-> Max(c),
             version_id |-> db.epoch_to_version[Max(c)]]

FindEpochToVersion_Nearest(db, query_epoch) ==
    LET c == {e \in DOMAIN db.epoch_to_version : e <= query_epoch}
        n == IF c = {} THEN DOMAIN db.epoch_to_version ELSE c
    IN IF n = {} THEN [found |-> FALSE, epoch |-> 0, version_id |-> 0]
       ELSE [found |-> TRUE, epoch |-> Max(n),
             version_id |-> db.epoch_to_version[Max(n)]]

\* Epoch.lte(query_epoch), order_by_desc(Epoch), one
FindEpochToVersion(db, query_epoch) ==
    LET c == {e \in DOMAIN db.epoch_to_version : e <= query_epoch}
    IN IF c = {} THEN [found |-> FALSE, epoch |-> 0, version_id |-> 0]
       ELSE [found |-> TRUE, epoch |-> Max(c),
             version_id |-> db.epoch_to_version[Max(c)]]

FindReplayVersion_Nearest(db, expected_version_id) ==
    LET c == {k \in DOMAIN db.time_travel_version : k <= expected_version_id}
        n == IF c = {} THEN DOMAIN db.time_travel_version ELSE c
    IN IF n = {} THEN [found |-> FALSE, version_id |-> 0]
       ELSE [found |-> TRUE, version_id |-> Max(n),
             version |-> db.time_travel_version[Max(n)]]

\* VersionId.lte(expected_version_id), order_by_desc(VersionId), one
FindReplayVersion(db, expected_version_id) ==
    LET c == {k \in DOMAIN db.time_travel_version : k <= expected_version_id}
    IN IF c = {} THEN [found |-> FALSE, version_id |-> 0]
       ELSE [found |-> TRUE, version_id |-> Max(c),
             version |-> db.time_travel_version[Max(c)]]

FindDeltas_Lt(db, replay_version_id, expected_version_id) ==
    LET ids == SetToSeq({k \in DOMAIN db.time_travel_delta :
                            k > replay_version_id /\ k < expected_version_id})
    IN [i \in 1..Len(ids) |-> db.time_travel_delta[ids[i]]]

FindDeltas_Gte(db, replay_version_id, expected_version_id) ==
    LET ids == SetToSeq({k \in DOMAIN db.time_travel_delta :
                            k >= replay_version_id /\ k <= expected_version_id})
    IN [i \in 1..Len(ids) |-> db.time_travel_delta[ids[i]]]

\* VersionId.gt(replay_version.version_id), VersionId.lte(expected_version_id),
\* order_by_asc(VersionId), all
FindDeltas(db, replay_version_id, expected_version_id) ==
    LET ids == SetToSeq({k \in DOMAIN db.time_travel_delta :
                            k > replay_version_id /\ k <= expected_version_id})
    IN [i \in 1..Len(ids) |-> db.time_travel_delta[ids[i]]]

AdvanceId_None(last_version, prev_id) == last_version

\* while last_version.id < d.prev_id { last_version.id += 1; }
RECURSIVE AdvanceId(_, _)
AdvanceId(last_version, prev_id) ==
    IF last_version.id < prev_id
    THEN AdvanceId([last_version EXCEPT !.id = @ + 1], prev_id)
    ELSE last_version

\* replay_archive; apply_version_delta asserts version.id = delta.prev_id,
\* so a delta whose prev_id lies below the running id panics.
RECURSIVE ReplayFrom(_, _)
ReplayFrom(last_version, deltas) ==
    IF deltas = <<>> THEN [panic |-> FALSE, version |-> last_version]
    ELSE LET d == from_persisted_protobuf(Head(deltas))
             v == AdvanceId(last_version, d.prev_id)
         IN IF v.id # d.prev_id
            THEN [panic |-> TRUE, version |-> v]
            ELSE ReplayFrom(apply_version_delta(v, d), Tail(deltas))

replay_archive(version, deltas) ==
    ReplayFrom(from_persisted_protobuf(version), deltas)

Min2_One(a, b) == IF a = 0 \/ b = 0 THEN 0 ELSE 1

Min2(a, b) == IF a <= b THEN a ELSE b

\* SstId.is_in(batch): the sstable_info column of the rows found, keyed by the
\* sst_id inside it.
FetchBatch(db, batch) ==
    LET rows == {db.sstable_info[k].sstable_info :
                    k \in Range(batch) \cap DOMAIN db.sstable_info}
    IN [k \in {r.sst_id : r \in rows} |->
            CHOOSE r \in rows : r.sst_id = k]

Merge(f, g) == [x \in DOMAIN f \cup DOMAIN g |-> IF x \in DOMAIN g THEN g[x] ELSE f[x]]

\* while !sst_ids.is_empty() { drain(..min(batch_size, len)) .. }
RECURSIVE FetchLoop(_, _, _)
FetchLoop(db, sst_ids, sst_id_to_info) ==
    IF sst_ids = <<>> THEN sst_id_to_info
    ELSE LET n == Min2(FetchBatchSize, Len(sst_ids))
         IN FetchLoop(db, SubSeq(sst_ids, n + 1, Len(sst_ids)),
                      Merge(sst_id_to_info, FetchBatch(db, SubSeq(sst_ids, 1, n))))

ResolveErr(msg) == [ok |-> FALSE, err |-> msg]

FinishResolve_NoCheck(actual_version, sst_count, sst_id_to_info) ==
    [ok |-> TRUE, version |-> actual_version]

\* if sst_count != sst_id_to_info.len() { Err } else refill_version
FinishResolve(actual_version, sst_count, sst_id_to_info) ==
    IF sst_count # Cardinality(DOMAIN sst_id_to_info)
    THEN ResolveErr("some SstableInfos not found")
    ELSE [ok |-> TRUE, version |-> refill_version(actual_version, sst_id_to_info)]

\* epoch_to_version when no other transaction commits between its reads.
epoch_to_version(db, query_epoch) ==
    LET e2v == FindEpochToVersion(db, query_epoch)
    IN IF ~e2v.found THEN ResolveErr("version not found for epoch")
       ELSE
       LET replay_version == FindReplayVersion(db, e2v.version_id)
       IN IF ~replay_version.found THEN ResolveErr("no replay version found")
          ELSE
          LET deltas == FindDeltas(db, replay_version.version_id, e2v.version_id)
              replayed == replay_archive(replay_version.version, deltas)
          IN IF replayed.panic THEN ResolveErr("panic")
             ELSE
             LET sst_ids == SetToSeq(get_sst_ids(replayed.version))
             IN FinishResolve(replayed.version, Len(sst_ids),
                              FetchLoop(db, sst_ids, EmptyFn))

\* ---------------------------------------------------- the commit pipeline
\* The caller of write_time_travel_metadata: every step makes version id + 1
\* and one new file whose sst_id is that id; a commit raises the epoch by
\* 2 (so that queries fall between two commits) and is archived, a compaction is not.
InitialVersion ==
    [id                  |-> 0,
     levels              |-> (GroupId :> EmptyLevels(GroupId)),
     max_committed_epoch |-> 0,
     safe_epoch          |-> 0,
     table_watermarks    |-> (TableId :> 0),
     table_change_log    |-> (TableId :> <<>>),
     state_table_info    |-> (TableId :> [compaction_group_id |-> GroupId])]

CommitDelta(cur) ==
    LET id    == cur.id + 1
        epoch == cur.max_committed_epoch + 2
    IN [id                  |-> id,
        prev_id             |-> cur.id,
        group_deltas        |-> (GroupId :>
            <<[delta_type           |-> "IntraLevel",
               level_idx            |-> 0,
               l0_sub_level_id      |-> id,
               removed_table_ids    |-> {},
               inserted_table_infos |-> <<FullSst(id)>>]>>),
        max_committed_epoch |-> epoch,
        safe_epoch          |-> cur.safe_epoch,
        trivial_move        |-> FALSE,
        change_log_delta    |-> (TableId :>
            [new_log        |-> [old_value |-> <<>>,
                                 new_value |-> <<FullSst(id)>>,
                                 epochs    |-> <<epoch>>],
             truncate_epoch |-> cur.max_committed_epoch]),
        new_table_watermarks   |-> EmptyFn,
        removed_table_ids      |-> {},
        state_table_info_delta |-> EmptyFn]

L0SstIds(levels) ==
    {s.sst_id : s \in Range(Concat([i \in 1..Len(levels.l0.sub_levels) |->
                                       levels.l0.sub_levels[i].table_infos]))}

L1SstIds(levels) == {s.sst_id : s \in Range(levels.levels[1].table_infos)}

CompactDelta(cur) ==
    LET id == cur.id + 1
    IN [id                  |-> id,
        prev_id             |-> cur.id,
        group_deltas        |-> (GroupId :>
            <<[delta_type           |-> "IntraLevel",
               level_idx            |-> 0,
               l0_sub_level_id      |-> 0,
               removed_table_ids    |-> L0SstIds(cur.levels[GroupId]),
               inserted_table_infos |-> <<>>],
              [delta_type           |-> "IntraLevel",
               level_idx            |-> 1,
               l0_sub_level_id      |-> 0,
               removed_table_ids    |-> L1SstIds(cur.levels[GroupId]),
               inserted_table_infos |-> <<FullSst(id)>>]>>),
        max_committed_epoch |-> cur.max_committed_epoch,
        safe_epoch          |-> cur.safe_epoch,
        trivial_move        |-> FALSE,
        change_log_delta    |-> EmptyFn,
        new_table_watermarks   |-> EmptyFn,
        removed_table_ids      |-> {},
        state_table_info_delta |-> EmptyFn]

MaxEpoch == 2 * MaxCommits
QueryEpochs == 1..(MaxEpoch + 1)

\* ------------------------------------------------------------------- state
VARIABLES
    hummock_epoch_to_version,     \* table: epoch -> version_id
    hummock_time_travel_version,  \* table: version_id -> stripped version
    hummock_time_travel_delta,    \* table: version_id -> stripped delta
    hummock_sstable_info,         \* table: sst_id -> (object_id, sstable_info)
    current_version,              \* the pipeline's full version
    committed,                    \* epoch -> the full version committed at it
    pre,                          \* the store before the last call
    last,                         \* the last call and what it returned
    resolving,                    \* the locals of the epoch_to_version in flight
    observed,                     \* the stores committed while it ran
    meta_store,                   \* the MetaStoreImpl of the environment
    queue,                        \* SmallHotCache.queue
    cost,                         \* SmallHotCache.cost (the shared counter)
    capacity,                     \* SmallHotCache.capacity
    returned,                     \* what the last SmallHotCache call returned
    history,                      \* the items inserted and evicted since new / clear
    start,                        \* GenerateSeriesI32Executor2.start
    stop,                         \* GenerateSeriesI32Executor2.stop
    step,                         \* GenerateSeriesI32Executor2.step
    cur,                          \* do_execute: the local cur
    stream,                       \* the chunks yielded so far and the stream's state
    overflow_checks               \* whether the build panics on integer overflow

tables == <<hummock_epoch_to_version, hummock_time_travel_version,
            hummock_time_travel_delta, hummock_sstable_info>>
vars == <<hummock_epoch_to_version, hummock_time_travel_version,
          hummock_time_travel_delta, hummock_sstable_info,
          current_version, committed, pre, last, resolving, observed,
          meta_store,
          queue, cost, capacity, returned, history,
          start, stop, step, cur, stream, overflow_checks>>

cache_vars == <<queue, cost, capacity, returned, history>>
series_vars == <<start, stop, step, cur, stream, overflow_checks>>

\* No SmallHotCache has been constructed.
NoCache ==
    /\ queue = <<>>
    /\ cost = 0
    /\ capacity = 0
    /\ returned = [op |-> "none"]
    /\ history = [inserted |-> <<>>, evicted |-> <<>>]

\* No GenerateSeriesI32Executor2 has been constructed.
NoSeries ==
    /\ start = 0
    /\ stop = 0
    /\ step = 0
    /\ cur = 0
    /\ stream = [chunks |-> <<>>, state |-> "none"]
    /\ overflow_checks = FALSE

Store ==
    [epoch_to_version    |-> hummock_epoch_to_version,
     time_travel_version |-> hummock_time_travel_version,
     time_travel_delta   |-> hummock_time_travel_delta,
     sstable_info        |-> hummock_sstable_info]

SetStore(db) ==
    /\ hummock_epoch_to_version' = db.epoch_to_version
    /\ hummock_time_travel_version' = db.time_travel_version
    /\ hummock_time_travel_delta' = db.time_travel_delta
    /\ hummock_sstable_info' = db.sstable_info

NoResult == ResolveErr("none")
Idle == [pc |-> "idle"]

Call(op, arg, ok, committed_, anchor, result) ==
    [op |-> op, arg |-> arg, ok |-> ok, committed |-> committed_,
     anchor |-> anchor, result |-> result]

Init ==
    /\ hummock_epoch_to_version = EmptyFn
    /\ hummock_time_travel_version = EmptyFn
    /\ hummock_time_travel_delta = EmptyFn
    /\ hummock_sstable_info = EmptyFn
    /\ current_version = InitialVersion
    /\ committed = EmptyFn
    /\ pre = EmptyStore
    /\ last = Call("init", 0, TRUE, FALSE, 0, NoResult)
    /\ resolving = Idle
    /\ observed = {}
    /\ meta_store = "Sql"
    /\ NoCache
    /\ NoSeries

\* ----------------------------------------------------------------- actions
MetaStoreImpls == {"Sql", "Etcd", "Mem"}

ConfigErr == ResolveErr("time travel requires SQL meta store")

sql_store_Any(meta_store_impl) == [ok |-> TRUE]

\* match self.env.meta_store() { MetaStoreImpl::Sql(..) => Ok, _ => Err }
sql_store(meta_store_impl) ==
    IF meta_store_impl = "Sql" THEN [ok |-> TRUE] ELSE ConfigErr

Commits == current_version.max_committed_epoch \div 2
Compactions == current_version.id - Commits

\* A transaction committed while epoch_to_version is between two reads.
Observe(db) ==
    observed' = IF resolving.pc \in {"idle", "done"} THEN observed
                ELSE observed \cup {db}

\* History of the last call, kept unless the behaviour is untraced.
Record(call) ==
    IF last.op = "untraced" THEN UNCHANGED <<pre, last>>
    ELSE pre' = Store /\ last' = call

\* commit_epoch: the new version and its delta are archived in one
\* transaction, with a keyframe when `snapshot`.
CommitEpochUpTo(max_commits, snapshot) ==
    /\ Commits < max_commits
    /\ \E delta \in {CommitDelta(current_version)} :
       \E version \in {apply_version_delta(current_version, delta)} :
       \E w \in {write_time_travel_metadata(Store,
                          IF snapshot THEN SomeVersion(version) ELSE NoVersion,
                          delta)} :
          /\ w.ok
          /\ SetStore(w.db)
          /\ Observe(w.db)
          /\ current_version' = version
          /\ committed' = Put(committed, delta.max_committed_epoch, version)
          /\ Record(Call("write", delta.max_committed_epoch, TRUE, TRUE,
                         IF snapshot THEN version.id ELSE 0,
                         [ok      |-> TRUE,
                          version |-> IF snapshot THEN SomeVersion(version)
                                      ELSE NoVersion,
                          delta   |-> delta]))
    /\ UNCHANGED <<meta_store, cache_vars, series_vars>>
    /\ UNCHANGED resolving

CommitEpoch(snapshot) == CommitEpochUpTo(MaxCommits, snapshot)

\* A compaction: a new version that is not archived.
Compact ==
    /\ Compactions < MaxCompactions
    /\ L0SstIds(current_version.levels[GroupId]) # {}
    /\ current_version' =
           apply_version_delta(current_version, CompactDelta(current_version))
    /\ UNCHANGED <<meta_store, cache_vars, series_vars>>
    /\ UNCHANGED <<tables, committed, pre, last, resolving, observed>>

Truncate(epoch_watermark, fail) ==
    /\ sql_store(meta_store).ok => hummock_epoch_to_version # EmptyFn
    /\ IF ~sql_store(meta_store).ok
       THEN /\ UNCHANGED <<tables, observed>>
            /\ Record(Call("truncate", epoch_watermark, FALSE, FALSE, 0,
                           sql_store(meta_store)))
       ELSE
       \E r \in {truncate_time_travel_metadata(Store, epoch_watermark, fail)} :
       \E db \in {TxnOutcome(Store, r)} :
          /\ SetStore(db)
          /\ Observe(db)
          /\ Record(Call("truncate", epoch_watermark, r.ok, r.committed,
                         r.anchor, NoResult))
    /\ UNCHANGED <<meta_store, cache_vars, series_vars>>
    /\ UNCHANGED <<current_version, committed, resolving>>

Resolve_Consuming(query_epoch) ==
    /\ hummock_epoch_to_version # EmptyFn
    /\ pre' = Store
    /\ last' = LET r == epoch_to_version(Store, query_epoch)
               IN Call("resolve", query_epoch, r.ok, FALSE, 0, r)
    /\ hummock_epoch_to_version' =
           DeleteKeys(hummock_epoch_to_version,
                      {e \in DOMAIN hummock_epoch_to_version : e <= query_epoch})
    /\ UNCHANGED <<meta_store, cache_vars, series_vars>>
    /\ UNCHANGED <<hummock_time_travel_version, hummock_time_travel_delta,
                   hummock_sstable_info, current_version, committed,
                   resolving, observed>>

\* epoch_to_version with no commit between its reads.
Resolve(query_epoch) ==
    /\ sql_store(meta_store).ok => hummock_epoch_to_version # EmptyFn
    /\ pre' = Store
    /\ \E r \in {IF ~sql_store(meta_store).ok THEN sql_store(meta_store)
                        ELSE epoch_to_version(Store, query_epoch)} :
           last' = Call("resolve", query_epoch, r.ok, FALSE, 0, r)
    /\ UNCHANGED <<meta_store, cache_vars, series_vars>>
    /\ UNCHANGED <<tables, current_version, committed, resolving, observed>>

Next ==
    \/ \E snapshot \in BOOLEAN : CommitEpoch(snapshot)
    \/ Compact
    \/ \E w \in QueryEpochs, fail \in FailPoints : Truncate(w, fail)
    \/ \E e \in QueryEpochs : Resolve(e)

Spec == Init /\ [][Next]_vars

\* Longer histories of the transactions alone: one more commit, every
\* truncate runs to its end and nobody resolves.
CommitEpochDeep(snapshot) == CommitEpochUpTo(MaxCommits + 1, snapshot)

QueryEpochsDeep == 1..(MaxEpoch + 3)

NextGC ==
    \/ \E snapshot \in BOOLEAN : CommitEpochDeep(snapshot)
    \/ Compact
    \/ \E w \in QueryEpochsDeep : Truncate(w, NoFailure)

SpecGC == Init /\ [][NextGC]_vars

\* ------------------------------------------ every kind of meta store
\* Rows of hummock_sstable_info, ObjectId column.
all_object_ids_in_time_travel_SstId(db) == DOMAIN db.sstable_info

all_object_ids_in_time_travel(db) ==
    {db.sstable_info[k].object_id : k \in DOMAIN db.sstable_info}

AllObjectIds ==
    /\ pre' = Store
    /\ last' = IF ~sql_store(meta_store).ok
               THEN Call("all_object_ids", 0, FALSE, FALSE, 0, sql_store(meta_store))
               ELSE Call("all_object_ids", 0, TRUE, FALSE, 0,
                         [ok |-> TRUE,
                          object_ids |-> all_object_ids_in_time_travel(Store)])
    /\ UNCHANGED <<meta_store, cache_vars, series_vars>>
    /\ UNCHANGED <<tables, current_version, committed, resolving, observed>>

\* Versions are archived only where there is a SQL transaction to do it in.
CommitEpochSql(snapshot) ==
    /\ sql_store(meta_store).ok
    /\ CommitEpoch(snapshot)

InitCfg ==
    /\ hummock_epoch_to_version = EmptyFn
    /\ hummock_time_travel_version = EmptyFn
    /\ hummock_time_travel_delta = EmptyFn
    /\ hummock_sstable_info = EmptyFn
    /\ current_version = InitialVersion
    /\ committed = EmptyFn
    /\ pre = EmptyStore
    /\ last = Call("init", 0, TRUE, FALSE, 0, NoResult)
    /\ resolving = Idle
    /\ observed = {}
    /\ meta_store \in MetaStoreImpls
    /\ NoCache
    /\ NoSeries

NextCfg ==
    \/ \E snapshot \in BOOLEAN : CommitEpochSql(snapshot)
    \/ \E w \in QueryEpochs : Truncate(w, NoFailure)
    \/ \E e \in QueryEpochs : Resolve(e)
    \/ AllObjectIds

SpecCfg == InitCfg /\ [][NextCfg]_vars

\* The reclaimer's runs with the listing of the registry's object ids.
NextObj == NextGC \/ AllObjectIds

SpecObj == Init /\ [][NextObj]_vars

\* --------------------------------------- epoch_to_version, read by read
\* Each statement of epoch_to_version is awaited on sql_store.conn; another
\* task's transaction can commit between two of them.
Returned(result) == [resolving EXCEPT !.pc = "done", !.result = result]

ResolveFindEpoch(query_epoch) ==
    /\ resolving.pc = "idle"
    /\ hummock_epoch_to_version # EmptyFn
    /\ LET e2v == FindEpochToVersion(Store, query_epoch)
           started ==
               [pc                  |-> "find_replay_version",
                query_epoch         |-> query_epoch,
                expected_version_id |-> e2v.version_id,
                replay_version_id   |-> 0,
                replay_version      |-> IncompleteHummockVersion(InitialVersion),
                actual_version      |-> IncompleteHummockVersion(InitialVersion),
                sst_ids             |-> <<>>,
                sst_count           |-> 0,
                sst_id_to_info      |-> EmptyFn,
                sst_info_fetch_batch_size |-> 0,
                requested           |-> <<>>,
                result              |-> NoResult]
       IN resolving' =
              IF ~sql_store(meta_store).ok
              THEN [started EXCEPT !.pc = "done", !.result = sql_store(meta_store)]
              ELSE IF e2v.found THEN started
              ELSE [started EXCEPT !.pc = "done",
                        !.result = ResolveErr("version not found for epoch")]
    /\ observed' = {Store}
    /\ UNCHANGED <<meta_store, cache_vars, series_vars>>
    /\ UNCHANGED <<tables, current_version, committed, pre, last>>

ResolveFindReplayVersion ==
    /\ resolving.pc = "find_replay_version"
    /\ LET replay_version == FindReplayVersion(Store, resolving.expected_version_id)
       IN resolving' =
              IF replay_version.found
              THEN [resolving EXCEPT !.pc = "find_deltas",
                        !.replay_version_id = replay_version.version_id,
                        !.replay_version = replay_version.version]
              ELSE Returned(ResolveErr("no replay version found"))
    /\ UNCHANGED <<meta_store, cache_vars, series_vars>>
    /\ UNCHANGED <<tables, current_version, committed, pre, last, observed>>

ResolveFindDeltasWith(sst_info_fetch_batch_size) ==
    /\ resolving.pc = "find_deltas"
    /\ \E replayed \in {replay_archive(resolving.replay_version,
                           FindDeltas(Store, resolving.replay_version_id,
                                      resolving.expected_version_id))} :
       \E sst_ids \in {SetToSeq(get_sst_ids(replayed.version))} :
          resolving' =
              IF replayed.panic THEN Returned(ResolveErr("panic"))
              ELSE [resolving EXCEPT !.pc = "fetch",
                        !.actual_version = replayed.version,
                        !.sst_ids = sst_ids,
                        !.sst_count = Len(sst_ids),
                        !.sst_info_fetch_batch_size = sst_info_fetch_batch_size]
    /\ UNCHANGED <<meta_store, cache_vars, series_vars>>
    /\ UNCHANGED <<tables, current_version, committed, pre, last, observed>>

ResolveFindDeltas == ResolveFindDeltasWith(FetchBatchSize)

\* One pass of the while loop: one batched select.
ResolveFetch ==
    /\ resolving.pc = "fetch"
    /\ resolving.sst_ids # <<>>
    /\ LET n == Min2(resolving.sst_info_fetch_batch_size, Len(resolving.sst_ids))
       IN resolving' =
              [resolving EXCEPT
                  !.sst_ids = SubSeq(@, n + 1, Len(@)),
                  !.requested = IF Len(@) < MaxFetches
                                THEN Append(@, SubSeq(resolving.sst_ids, 1, n))
                                ELSE @,
                  !.sst_id_to_info =
                      Merge(@, FetchBatch(Store, SubSeq(resolving.sst_ids, 1, n)))]
    /\ UNCHANGED <<meta_store, cache_vars, series_vars>>
    /\ UNCHANGED <<tables, current_version, committed, pre, last, observed>>

ResolveFinish ==
    /\ resolving.pc = "fetch"
    /\ resolving.sst_ids = <<>>
    /\ resolving' = Returned(FinishResolve(resolving.actual_version,
                                           resolving.sst_count,
                                           resolving.sst_id_to_info))
    /\ UNCHANGED <<meta_store, cache_vars, series_vars>>
    /\ UNCHANGED <<tables, current_version, committed, pre, last, observed>>

NextConc ==
    \/ \E snapshot \in BOOLEAN : CommitEpoch(snapshot)
    \/ Compact
    \/ \E w \in QueryEpochs : Truncate(w, NoFailure)
    \/ \E e \in QueryEpochs : ResolveFindEpoch(e)
    \/ ResolveFindReplayVersion
    \/ ResolveFindDeltas
    \/ ResolveFetch
    \/ ResolveFinish

InitConc ==
    /\ hummock_epoch_to_version = EmptyFn
    /\ hummock_time_travel_version = EmptyFn
    /\ hummock_time_travel_delta = EmptyFn
    /\ hummock_sstable_info = EmptyFn
    /\ current_version = InitialVersion
    /\ committed = EmptyFn
    /\ pre = EmptyStore
    /\ last = Call("untraced", 0, TRUE, FALSE, 0, NoResult)
    /\ resolving = Idle
    /\ observed = {}
    /\ meta_store = "Sql"
    /\ NoCache
    /\ NoSeries

SpecConc == InitConc /\ [][NextConc]_vars

\* ------------------------------- the fetch loop under every batch size
\* Calls one after the other; the batch size is what the environment
\* variable holds when the call reads it (line 270), 0 included: parse()
\* accepts it.
BatchSizes == 0..MaxBatchSize

QueryEpochsFetch == 1..(2 * MaxFetchCommits)

CommitEpochFetch(snapshot) ==
    /\ resolving.pc \in {"idle", "done"}
    /\ CommitEpochUpTo(MaxFetchCommits, snapshot)

NextFetch ==
    \/ \E snapshot \in BOOLEAN : CommitEpochFetch(snapshot)
    \/ \E e \in QueryEpochsFetch : ResolveFindEpoch(e)
    \/ ResolveFindReplayVersion
    \/ \E b \in BatchSizes : ResolveFindDeltasWith(b)
    \/ ResolveFetch
    \/ ResolveFinish

SpecFetch == InitConc /\ [][NextFetch]_vars

\* A call that has entered the fetch loop is polled until it returns: each
\* pass of the loop and the statements after it are taken when they can be.
SpecFetchLive ==
    /\ SpecFetch
    /\ WF_vars(ResolveFetch)
    /\ WF_vars(ResolveFinish)

\* ------------------------------------------- strip and refill, on their own
\* The versions the round trip is tried on: one level group with or without
\* member tables, files 1..2 in one L0 sub-level, files 3..4 in level 1, and
\* one change-log entry whose old and new values are drawn from files 5..6.
MaxL0Sst == 2
MaxL1Sst == 4
MaxLogSst == 6

SstInfos(S) == [i \in 1..Cardinality(S) |-> FullSst(SetToSeq(S)[i])]

StripInput(member, l0, l1, old_value, new_value) ==
    [id                  |-> 1,
     levels              |-> (GroupId :>
         [levels           |-> <<[level_idx |-> 1, table_infos |-> SstInfos(l1),
                                  total_file_size |-> 100 * Cardinality(l1),
                                  sub_level_id |-> 0]>>,
          l0               |-> [sub_levels |->
                                    IF l0 = {} THEN <<>>
                                    ELSE <<[level_idx |-> 0,
                                            table_infos |-> SstInfos(l0),
                                            total_file_size |-> 100 * Cardinality(l0),
                                            sub_level_id |-> 1]>>,
                                total_file_size |-> 100 * Cardinality(l0)],
          group_id         |-> GroupId,
          member_table_ids |-> member]),
     max_committed_epoch |-> 2,
     safe_epoch          |-> 1,
     table_watermarks    |-> (TableId :> 1),
     table_change_log    |-> (TableId :>
         <<[old_value |-> SstInfos(old_value),
            new_value |-> SstInfos(new_value),
            epochs    |-> <<2>>]>>),
     state_table_info    |-> (TableId :> [compaction_group_id |-> GroupId])]

StripInputs ==
    {StripInput(member, l0, l1, old_value, new_value) :
        member \in SUBSET {TableId},
        l0 \in SUBSET (1..MaxL0Sst),
        l1 \in SUBSET ((MaxL0Sst + 1)..MaxL1Sst),
        old_value \in SUBSET {MaxL1Sst + 1},
        new_value \in SUBSET {MaxLogSst}}

\* The registry holds every file of the version, with its metadata.
InitStrip ==
    /\ current_version \in StripInputs
    /\ hummock_sstable_info = write_sstable_infos(EmptyFn, get_sst_infos(current_version))
    /\ hummock_epoch_to_version = EmptyFn
    /\ hummock_time_travel_version = EmptyFn
    /\ hummock_time_travel_delta = EmptyFn
    /\ committed = EmptyFn
    /\ pre = EmptyStore
    /\ last = Call("init", 0, TRUE, FALSE, 0, NoResult)
    /\ resolving = Idle
    /\ observed = {}
    /\ meta_store = "Sql"
    /\ NoCache
    /\ NoSeries

\* The keyframe column: IncompleteHummockVersion::from(version).to_protobuf()
StripVersion ==
    /\ current_version.id \notin DOMAIN hummock_time_travel_version
    /\ hummock_time_travel_version' =
           InsertOrIgnore(hummock_time_travel_version, current_version.id,
                          IncompleteHummockVersion(current_version))
    /\ UNCHANGED <<meta_store, cache_vars, series_vars>>
    /\ UNCHANGED <<hummock_epoch_to_version, hummock_time_travel_delta,
                   hummock_sstable_info, current_version, committed, pre, last,
                   resolving, observed>>

\* from_persisted_protobuf, the registry fetch and refill_version.
RefillVersion ==
    /\ last.op = "init"
    /\ current_version.id \in DOMAIN hummock_time_travel_version
    /\ LET actual_version ==
               from_persisted_protobuf(hummock_time_travel_version[current_version.id])
           sst_ids == SetToSeq(get_sst_ids(actual_version))
       IN Record(Call("refill", current_version.id, TRUE, FALSE, 0,
                      FinishResolve(actual_version, Len(sst_ids),
                                    FetchLoop(Store, sst_ids, EmptyFn))))
    /\ UNCHANGED <<meta_store, cache_vars, series_vars>>
    /\ UNCHANGED <<tables, current_version, committed, resolving, observed>>

NextStrip == StripVersion \/ RefillVersion

SpecStrip == InitStrip /\ [][NextStrip]_vars

\* A delta handed to IncompleteHummockVersionDelta::from: one IntraLevel group
\* delta whose inserted files are listed in the given order, optionally
\* followed by a GroupConstruct and a GroupDestroy, and one change-log delta.
StripDeltaInput(inserted, removed, group_change, old_value, new_value) ==
    [id                  |-> 2,
     prev_id             |-> 1,
     group_deltas        |-> (GroupId :>
         <<[delta_type           |-> "IntraLevel",
            level_idx            |-> 0,
            l0_sub_level_id      |-> 2,
            removed_table_ids    |-> removed,
            inserted_table_infos |-> [i \in 1..Len(inserted) |-> FullSst(inserted[i])]]>>
         \o (IF group_change
             THEN <<[delta_type |-> "GroupConstruct", group_id |-> GroupId + 1,
                     parent_group_id |-> GroupId, table_ids |-> {TableId}],
                    [delta_type |-> "GroupDestroy"]>>
             ELSE <<>>)),
     max_committed_epoch |-> 4,
     safe_epoch          |-> 1,
     trivial_move        |-> FALSE,
     change_log_delta    |-> (TableId :>
         [new_log        |-> [old_value |-> SstInfos(old_value),
                              new_value |-> SstInfos(new_value),
                              epochs    |-> <<4>>],
          truncate_epoch |-> 2]),
     new_table_watermarks   |-> (TableId :> 4),
     removed_table_ids      |-> {TableId + 1},
     state_table_info_delta |-> (TableId :> [committed_epoch |-> 4])]

StripDeltaInputs ==
    {StripDeltaInput(inserted, removed, group_change, old_value, new_value) :
        inserted \in {<<>>, <<1>>, <<1, 2>>, <<2, 1>>},
        removed \in SUBSET {MaxL0Sst + 1},
        group_change \in BOOLEAN,
        old_value \in SUBSET {MaxL1Sst + 1},
        new_value \in SUBSET {MaxLogSst}}

\* The delta column: IncompleteHummockVersionDelta::from(delta).to_protobuf()
StripDelta(delta) ==
    /\ delta.id \notin DOMAIN hummock_time_travel_delta
    /\ hummock_time_travel_delta' =
           InsertOrIgnore(hummock_time_travel_delta, delta.id,
                          IncompleteHummockVersionDelta(delta))
    /\ Record(Call("strip_delta", delta.id, TRUE, FALSE, 0,
                   [ok |-> TRUE, delta |-> delta]))
    /\ UNCHANGED <<meta_store, cache_vars, series_vars>>
    /\ UNCHANGED <<hummock_epoch_to_version, hummock_time_travel_version,
                   hummock_sstable_info, current_version, committed,
                   resolving, observed>>

NextStripAll == StripVersion \/ \E delta \in StripDeltaInputs : StripDelta(delta)

SpecStripAll == InitStrip /\ [][NextStripAll]_vars

\* ------------------------------------------------ the registry, on its own
MaxSstId == 2
SstContents == {11, 12}

SstInfoInputs ==
    {[sst_id |-> i, object_id |-> o, file_size |-> 100] :
        i \in 1..MaxSstId, o \in SstContents}

SstInfoBatches ==
    {<<a>> : a \in SstInfoInputs}
        \cup {<<a, b>> : a \in SstInfoInputs, b \in SstInfoInputs}

WriteSstableInfos(sst_infos) ==
    /\ hummock_sstable_info' = write_sstable_infos(hummock_sstable_info, sst_infos)
    /\ Record(Call("insert", Len(sst_infos), TRUE, TRUE, 0,
                   [ok |-> TRUE, sst_infos |-> sst_infos]))
    /\ UNCHANGED <<meta_store, cache_vars, series_vars>>
    /\ UNCHANGED <<hummock_epoch_to_version, hummock_time_travel_version,
                   hummock_time_travel_delta, current_version, committed,
                   resolving, observed>>

NextReg == \E sst_infos \in SstInfoBatches : WriteSstableInfos(sst_infos)

SpecReg == Init /\ [][NextReg]_vars

\* ------------------------------------------------ two commits, by name
\* The history of the design's section 8: version V0 (id 1) is committed at
\* epoch 10 with files 1 and 2 and archived with a keyframe; delta D1 (id 2)
\* is committed at epoch 20, adds file 3 and removes file 1, and is archived
\* without a keyframe.  The other choices of keyframes are histories too.
ScnD0 ==
    [id                  |-> 1,
     prev_id             |-> 0,
     group_deltas        |-> (GroupId :>
         <<[delta_type           |-> "IntraLevel",
            level_idx            |-> 0,
            l0_sub_level_id      |-> 1,
            removed_table_ids    |-> {},
            inserted_table_infos |-> <<FullSst(1), FullSst(2)>>]>>),
     max_committed_epoch |-> 10,
     safe_epoch          |-> 0,
     trivial_move        |-> FALSE,
     change_log_delta    |-> EmptyFn,
     new_table_watermarks   |-> EmptyFn,
     removed_table_ids      |-> {},
     state_table_info_delta |-> EmptyFn]

ScnD1 ==
    [id                  |-> 2,
     prev_id             |-> 1,
     group_deltas        |-> (GroupId :>
         <<[delta_type           |-> "IntraLevel",
            level_idx            |-> 0,
            l0_sub_level_id      |-> 2,
            removed_table_ids    |-> {1},
            inserted_table_infos |-> <<FullSst(3)>>]>>),
     max_committed_epoch |-> 20,
     safe_epoch          |-> 0,
     trivial_move        |-> FALSE,
     change_log_delta    |-> EmptyFn,
     new_table_watermarks   |-> EmptyFn,
     removed_table_ids      |-> {},
     state_table_info_delta |-> EmptyFn]

ScnEpochs == {5, 10, 15, 20, 25, 30}

\* commit_epoch with the given delta.
ScnCommit(delta, snapshot) ==
    /\ current_version.id = delta.prev_id
    /\ \E version \in {apply_version_delta(current_version, delta)} :
       \E w \in {write_time_travel_metadata(Store,
                          IF snapshot THEN SomeVersion(version) ELSE NoVersion,
                          delta)} :
          /\ w.ok
          /\ SetStore(w.db)
          /\ Observe(w.db)
          /\ current_version' = version
          /\ committed' = Put(committed, delta.max_committed_epoch, version)
          /\ Record(Call("write", delta.max_committed_epoch, TRUE, TRUE,
                         IF snapshot THEN version.id ELSE 0,
                         [ok      |-> TRUE,
                          version |-> IF snapshot THEN SomeVersion(version)
                                      ELSE NoVersion,
                          delta   |-> delta]))
    /\ UNCHANGED <<meta_store, cache_vars, series_vars>>
    /\ UNCHANGED resolving

NextScn ==
    \/ \E snapshot \in BOOLEAN : ScnCommit(ScnD0, snapshot)
    \/ \E snapshot \in BOOLEAN : ScnCommit(ScnD1, snapshot)
    \/ \E w \in ScnEpochs : Truncate(w, NoFailure)
    \/ \E e \in ScnEpochs : Resolve(e)

SpecScn == Init /\ [][NextScn]_vars

\* ------------------------------------------------- the write, on its own
\* write_time_travel_metadata called with any delta and, optionally, the
\* version of the same id: ids and epochs that are already archived
\* included, with the same or another content.  Version id adds file id.
MaxWrId == 2
MaxWrEpoch == 2

WrDelta(id, epoch, f) ==
    [id                  |-> id,
     prev_id             |-> id - 1,
     group_deltas        |-> (GroupId :>
         <<[delta_type           |-> "IntraLevel",
            level_idx            |-> 0,
            l0_sub_level_id      |-> id,
            removed_table_ids    |-> {},
            inserted_table_infos |-> <<FullSst(f)>>]>>),
     max_committed_epoch |-> epoch,
     safe_epoch          |-> 0,
     trivial_move        |-> FALSE,
     change_log_delta    |-> EmptyFn,
     new_table_watermarks   |-> EmptyFn,
     removed_table_ids      |-> {},
     state_table_info_delta |-> EmptyFn]

WrVersion(id, epoch, f) ==
    apply_version_delta([InitialVersion EXCEPT !.id = id - 1], WrDelta(id, epoch, f))

\* The caller's transaction: committed when the write returned Ok, dropped
\* when it returned an error.  The caller passes the delta of the given id
\* and epoch and, for a snapshot, the version of the same id.
WriteRows(id, epoch, snapshot) ==
    /\ \E delta \in {WrDelta(id, epoch, id)} :
       \E version \in {IF snapshot THEN SomeVersion(WrVersion(id, epoch, id))
                       ELSE NoVersion} :
       \E w \in {write_time_travel_metadata(Store, version, delta)} :
          /\ SetStore(IF w.ok THEN w.db ELSE Store)
          /\ Record(Call("write", delta.max_committed_epoch, w.ok, w.ok, 0,
                         [ok |-> w.ok, version |-> version, delta |-> delta]))
    /\ UNCHANGED <<meta_store, cache_vars, series_vars>>
    /\ UNCHANGED <<current_version, committed, resolving, observed>>

NextWr ==
    \E id \in 1..MaxWrId, epoch \in 1..MaxWrEpoch, snapshot \in BOOLEAN :
        WriteRows(id, epoch, snapshot)

SpecWr == Init /\ [][NextWr]_vars

\* ------------------------------------------------------- SmallHotCache
\* The time-travel store is not in use.
NoTimeTravel ==
    /\ hummock_epoch_to_version = EmptyFn
    /\ hummock_time_travel_version = EmptyFn
    /\ hummock_time_travel_delta = EmptyFn
    /\ hummock_sstable_info = EmptyFn
    /\ current_version = InitialVersion
    /\ committed = EmptyFn
    /\ pre = EmptyStore
    /\ last = Call("init", 0, TRUE, FALSE, 0, NoResult)
    /\ resolving = Idle
    /\ observed = {}
    /\ meta_store = "Sql"

time_travel_vars == <<tables, current_version, committed, pre, last, resolving,
                      observed, meta_store>>

\* Largest capacity given to SmallHotCache::new, largest cost() of an item,
\* and inserts followed between two clears.
MaxCapacity == 3
MaxItemCost == 2
MaxInserts == 3

CacheKeys == {"a", "b"}

\* CacheItem (fifo_cache/mod.rs): its key, its cost() and its queue mark.
CacheItem(key, item_cost) == [key |-> key, cost |-> item_cost, flag |-> "none"]

CacheItems == {CacheItem(k, c) : k \in CacheKeys, c \in 0..MaxItemCost}

mark_small(item) == [item EXCEPT !.flag = "small"]

unmark(item) == [item EXCEPT !.flag = "none"]

None == [some |-> FALSE]
Some(x) == [some |-> TRUE, value |-> x]

\* AtomicUsize::fetch_add / fetch_sub. The counter is a usize; the sums of
\* the modelled costs stay far below its width.
fetch_add(counter, val) == counter + val
fetch_sub(counter, val) == counter - val

\* VecDeque::pop_front: the first element and the rest, or None.
pop_front_Back(q) ==
    IF q = <<>> THEN [item |-> None, rest |-> q]
    ELSE [item |-> Some(q[Len(q)]), rest |-> SubSeq(q, 1, Len(q) - 1)]

pop_front(q) ==
    IF q = <<>> THEN [item |-> None, rest |-> q]
    ELSE [item |-> Some(Head(q)), rest |-> Tail(q)]

size == cost
is_full == size > capacity
count == Len(queue)

\* What a call saw when it started, kept with what it returned.
Before == [queue |-> queue, cost |-> cost]

\* SmallHotCache::new(capacity)
InitCache ==
    /\ NoTimeTravel
    /\ NoSeries
    /\ queue = <<>>
    /\ cost = 0
    /\ capacity \in 0..MaxCapacity
    /\ returned = [op |-> "new", value |-> None, before |-> [queue |-> <<>>, cost |-> 0]]
    /\ history = [inserted |-> <<>>, evicted |-> <<>>]

insert(item) ==
    /\ Len(history.inserted) < MaxInserts
    /\ queue' = Append(queue, mark_small(item))
    /\ cost' = fetch_add(cost, item.cost)
    /\ returned' = [op |-> "insert", value |-> None, before |-> Before]
    /\ history' = [history EXCEPT !.inserted = Append(@, item)]
    /\ UNCHANGED <<capacity, time_travel_vars, series_vars>>

evict ==
    /\ \E popped \in {pop_front(queue)} :
          IF ~popped.item.some
          THEN /\ returned' = [op |-> "evict", value |-> None, before |-> Before]
               /\ UNCHANGED <<queue, cost, history>>
          ELSE /\ queue' = popped.rest
               /\ cost' = fetch_sub(cost, popped.item.value.cost)
               /\ returned' = [op |-> "evict", value |-> Some(unmark(popped.item.value)),
                               before |-> Before]
               /\ history' = [history EXCEPT
                                 !.evicted = Append(@, unmark(popped.item.value))]
    /\ UNCHANGED <<capacity, time_travel_vars, series_vars>>

clear_KeepCost ==
    /\ queue' = <<>>
    /\ returned' = [op |-> "clear", value |-> None, before |-> Before]
    /\ history' = [inserted |-> <<>>, evicted |-> <<>>]
    /\ UNCHANGED <<cost, capacity, time_travel_vars, series_vars>>

clear ==
    /\ queue' = <<>>
    /\ cost' = 0
    /\ returned' = [op |-> "clear", value |-> None, before |-> Before]
    /\ history' = [inserted |-> <<>>, evicted |-> <<>>]
    /\ UNCHANGED <<capacity, time_travel_vars, series_vars>>

NextCache ==
    \/ \E item \in CacheItems : insert(item)
    \/ evict
    \/ clear

SpecCache == InitCache /\ [][NextCache]_vars

\* ------------------------------------------- GenerateSeriesI32Executor2
\* The greatest i32.
I32Max == 2147483647
I32Min == -I32Max - 1

\* risingwave_common::util::chunk_coalesce::DEFAULT_CHUNK_BUFFER_SIZE, scaled.
DEFAULT_CHUNK_BUFFER_SIZE == 2
\* Largest stop - start, largest step, and chunks followed on one stream.
MaxSpan == 6
MaxStep == 3
MaxChunks == 5

SeriesOrigins == {-1, 0, I32Max - MaxSpan}

\* cur += step on i32: the sum, or on overflow the wrapped sum.
AddAssign(c, s) ==
    IF s > 0 /\ c > I32Max - s
    THEN [overflow |-> TRUE, value |-> (c - I32Max) + (s - 1) + I32Min]
    ELSE IF s < 0 /\ c < I32Min - s
    THEN [overflow |-> TRUE, value |-> (c - I32Min) + (s + 1) + I32Max]
    ELSE [overflow |-> FALSE, value |-> c + s]

\* for _ in 0..chunk_size { if cur > stop { break; } append(cur); cur += step; }
\* An overflowing += panics in a build with overflow checks and wraps in one
\* without them.
RECURSIVE BuildChunk(_, _, _, _, _, _)
BuildChunk(c, stop_, step_, checks, built, n) ==
    IF n = 0 \/ c > stop_
    THEN [cur |-> c, chunk |-> built, panic |-> FALSE]
    ELSE LET a == AddAssign(c, step_)
         IN IF a.overflow /\ checks
            THEN [cur |-> c, chunk |-> Append(built, c), panic |-> TRUE]
            ELSE BuildChunk(a.value, stop_, step_, checks, Append(built, c), n - 1)

\* GenerateSeriesI32Executor2 { start, stop, step, .. } and execute(): the
\* stream exists and has not been polled; cur = start.
InitSeries ==
    /\ NoTimeTravel
    /\ NoCache
    /\ start \in SeriesOrigins
    /\ stop \in {start + d : d \in (-1)..MaxSpan}
    /\ step \in 1..MaxStep
    /\ cur = start
    /\ stream = [chunks |-> <<>>, state |-> "running"]
    /\ overflow_checks \in BOOLEAN

\* One poll of the stream: the body of do_execute up to its next yield, or
\* to its end.
do_execute ==
    /\ stream.state = "running"
    /\ Len(stream.chunks) < MaxChunks
    /\ IF ~(cur <= stop)
       THEN /\ stream' = [stream EXCEPT !.state = "ended"]
            /\ UNCHANGED cur
       ELSE \E r \in {BuildChunk(cur, stop, step, overflow_checks, <<>>,
                                 DEFAULT_CHUNK_BUFFER_SIZE)} :
            /\ cur' = r.cur
            /\ stream' = IF r.panic
                         THEN [stream EXCEPT !.state = "panicked"]
                         ELSE [stream EXCEPT !.chunks = Append(@, r.chunk)]
    /\ UNCHANGED <<start, stop, step, overflow_checks, time_travel_vars, cache_vars>>

NextSeries == do_execute

SpecSeries == InitSeries /\ [][NextSeries]_vars

\* ================================================================== claims
VersionSstIds(db, k) == get_sst_ids(from_persisted_protobuf(db.time_travel_version[k]))
DeltaSstIds(db, k) == newly_added_sst_ids(from_persisted_protobuf(db.time_travel_delta[k]))

\* The file ids some keyframe row or delta row of db with id >= k refers to.
ReferencedFrom(db, k) ==
    UNION {VersionSstIds(db, v) : v \in {x \in DOMAIN db.time_travel_version : x >= k}}
    \cup UNION {DeltaSstIds(db, d) : d \in {x \in DOMAIN db.time_travel_delta : x >= k}}

TruncateFoundAnchor == last.op = "truncate" /\ last.committed /\ last.anchor # 0

\* ---- C1
\* C1 as stated: after a successful truncate(w), every epoch e >= w that
\* resolved before the call resolves to the identical version after it.
C1_GcSafetyAsStated ==
    (last.op = "truncate" /\ last.ok) =>
        \A e \in QueryEpochs :
            (e >= last.arg /\ epoch_to_version(pre, e).ok)
                => epoch_to_version(Store, e) = epoch_to_version(pre, e)

\* C1 as amended: the same for every epoch e >= w whose index entry (the
\* greatest epoch <= e) is itself at or above w; the entry below w is deleted
\* with the others, and an epoch it alone covered no longer resolves.
C1_GcSafety ==
    (last.op = "truncate" /\ last.ok) =>
        \A e \in QueryEpochs :
            (/\ e >= last.arg
             /\ FindEpochToVersion(pre, e).epoch >= last.arg
             /\ epoch_to_version(pre, e).ok)
                => epoch_to_version(Store, e) = epoch_to_version(pre, e)

\* A truncate that deleted registry rows and keyframes, after which an epoch
\* at or above the watermark still resolves by replaying a delta.
C1_Witness ==
    /\ TruncateFoundAnchor
    /\ DOMAIN pre.sstable_info # DOMAIN hummock_sstable_info
    /\ DOMAIN pre.time_travel_version # DOMAIN hummock_time_travel_version
    /\ \E e \in QueryEpochs :
          /\ e >= last.arg
          /\ FindEpochToVersion(pre, e).epoch >= last.arg
          /\ epoch_to_version(pre, e).ok
          /\ epoch_to_version(Store, e).ok
          /\ FindReplayVersion(Store, FindEpochToVersion(Store, e).version_id).version_id
                 < FindEpochToVersion(Store, e).version_id

\* ---- C2
\* C2: in every reachable state every file id a keyframe row or a delta row
\* refers to (tier files, inserted files, change-log files) has a registry row.
C2_ReferentialIntegrity ==
    ReferencedFrom(Store, 0) \subseteq DOMAIN hummock_sstable_info

\* A truncate that deleted registry rows while a file of the anchor keyframe
\* was also referenced by a delta row it removed.
C2_Witness ==
    /\ TruncateFoundAnchor
    /\ DOMAIN pre.sstable_info # DOMAIN hummock_sstable_info
    /\ \E d \in DOMAIN pre.time_travel_delta :
          /\ d < last.anchor
          /\ DeltaSstIds(pre, d) \cap VersionSstIds(Store, last.anchor) # {}
          /\ DeltaSstIds(pre, d) \cap VersionSstIds(Store, last.anchor)
                 \subseteq DOMAIN hummock_sstable_info

\* ---- C7
\* C7: after a truncate that found the anchor keyframe K, no keyframe row and
\* no delta row with id < K remains.
C7_NoRowBelowAnchor ==
    TruncateFoundAnchor =>
        \A k \in DOMAIN hummock_time_travel_version \cup DOMAIN hummock_time_travel_delta :
            k >= last.anchor

\* Such a truncate removed a keyframe row and a delta row.
C7_Witness ==
    /\ TruncateFoundAnchor
    /\ \E k \in DOMAIN pre.time_travel_version : k < last.anchor
    /\ \E k \in DOMAIN pre.time_travel_delta : k < last.anchor

\* ---- C8
\* C8: after a truncate that found the anchor keyframe K, every registry row
\* is referenced by keyframe K or by a keyframe or delta row with id >= K.
C8_NoUnreachableFile ==
    TruncateFoundAnchor =>
        DOMAIN hummock_sstable_info \subseteq ReferencedFrom(Store, last.anchor)

\* Such a truncate removed two keyframes and deleted a file that a delta
\* between them had added and that the newer of the two no longer held.
C8_Witness ==
    /\ TruncateFoundAnchor
    /\ \E p2, p1 \in DOMAIN pre.time_travel_version :
          /\ p2 < p1
          /\ p1 < last.anchor
          /\ \E d \in DOMAIN pre.time_travel_delta :
                /\ p2 < d
                /\ d < p1
                /\ \E f \in DeltaSstIds(pre, d) :
                      /\ f \notin VersionSstIds(pre, p1)
                      /\ f \in DOMAIN pre.sstable_info
                      /\ f \notin DOMAIN hummock_sstable_info

\* ---- C3
TargetOf(db, e) == FindEpochToVersion(db, e)
KeyframeOf(db, e) == FindReplayVersion(db, TargetOf(db, e).version_id)

\* Every version step from the keyframe chosen for e to its target is archived.
NoGap(db, e) ==
    /\ TargetOf(db, e).found
    /\ KeyframeOf(db, e).found
    /\ \A k \in (KeyframeOf(db, e).version_id + 1)..TargetOf(db, e).version_id :
          k \in DOMAIN db.time_travel_delta

Adjacent(db, e1, e2) ==
    /\ e1 \in DOMAIN db.epoch_to_version
    /\ e2 \in DOMAIN db.epoch_to_version
    /\ e1 < e2
    /\ \A x \in DOMAIN db.epoch_to_version : ~(e1 < x /\ x < e2)

C6_TruncateAtomic ==
    last.op = "truncate" =>
        /\ ~last.ok => Store = pre
        /\ \/ Store = pre
           \/ Store = truncate_time_travel_metadata(pre, last.arg, NoFailure).db

\* A failed truncate whose transaction had an anchor and registry rows,
\* keyframes and deltas to delete.
C6_Witness ==
    /\ last.op = "truncate"
    /\ ~last.ok
    /\ LET r == truncate_time_travel_metadata(pre, last.arg, NoFailure)
       IN /\ r.anchor # 0
          /\ DOMAIN r.db.sstable_info # DOMAIN pre.sstable_info
          /\ DOMAIN r.db.time_travel_version # DOMAIN pre.time_travel_version
          /\ DOMAIN r.db.time_travel_delta # DOMAIN pre.time_travel_delta

\* ---- C5
\* C5: a version returned by an epoch_to_version call is the version the
\* whole call returns on one of the stores committed while it ran (the one
\* it started on, or one a concurrent write or truncate left).
C5_ResolveIsolated ==
    (resolving.pc = "done" /\ resolving.result.ok) =>
        \E db \in observed :
            resolving.result = epoch_to_version(db, resolving.query_epoch)

\* ---- C9
StripRefillDone == last.op = "refill"

WithoutMemberTableIds(version) ==
    [version EXCEPT !.levels =
        [g \in DOMAIN version.levels |->
            [version.levels[g] EXCEPT !.member_table_ids = {}]]]

FirstWith(sst_infos, sst_id) ==
    sst_infos[CHOOSE i \in 1..Len(sst_infos) :
                  /\ sst_infos[i].sst_id = sst_id
                  /\ \A j \in 1..(i - 1) : sst_infos[j].sst_id # sst_id]

\* C10: inserting file infos into the registry succeeds, leaves every row
\* that was there as it was (also when the new content differs), adds each
\* absent id with the first content offered for it, and inserting the same
\* infos again changes nothing.
C10_InsertIfAbsent ==
    last.op = "insert" =>
        LET before    == pre.sstable_info
            after     == hummock_sstable_info
            sst_infos == last.result.sst_infos
            ids       == {sst_infos[i].sst_id : i \in 1..Len(sst_infos)}
        IN /\ last.ok
           /\ DOMAIN after = DOMAIN before \cup ids
           /\ \A k \in DOMAIN before : after[k] = before[k]
           /\ \A k \in ids \ DOMAIN before :
                  after[k] = [object_id    |-> FirstWith(sst_infos, k).object_id,
                              sstable_info |-> FirstWith(sst_infos, k)]
           /\ write_sstable_infos(after, sst_infos) = after

\* An insert of an id that was present with other content.
C10_Witness ==
    /\ last.op = "insert"
    /\ \E i \in 1..Len(last.result.sst_infos) :
           LET info == last.result.sst_infos[i]
           IN /\ info.sst_id \in DOMAIN pre.sstable_info
              /\ pre.sstable_info[info.sst_id].sstable_info # info

\* ---- C11
Resolved == last.op = "resolve"

\* C11: epoch_to_version(query_epoch) on a store whose index has no epoch
\* <= query_epoch returns the time travel error "version not found for
\* epoch", and no version.
C11_NotFoundBelowIndex ==
    (Resolved /\ \A e \in DOMAIN pre.epoch_to_version : e > last.arg) =>
        /\ ~last.ok
        /\ last.result = ResolveErr("version not found for epoch")

\* A query below every indexed epoch, on a store that still holds a keyframe.
C11_Witness ==
    /\ Resolved
    /\ pre.epoch_to_version # EmptyFn
    /\ pre.time_travel_version # EmptyFn
    /\ \A e \in DOMAIN pre.epoch_to_version : e > last.arg

\* ---- C12
\* C12: when truncate(w) has returned Ok, epoch_to_version(e) is an error for
\* every e < w, on the store it left and after any number of resolves.
C12_NoVersionBelowWatermark ==
    /\ (last.op = "truncate" /\ last.ok) =>
           \A e \in 1..(last.arg - 1) : ~epoch_to_version(Store, e).ok
    /\ Resolved => Store = pre

\* A truncate that returned Ok on a store where an epoch below the watermark
\* resolved to a version.
C12_Witness ==
    /\ last.op = "truncate"
    /\ last.ok
    /\ last.committed
    /\ \E e \in 1..(last.arg - 1) : epoch_to_version(pre, e).ok
    /\ hummock_epoch_to_version # EmptyFn

\* ---- C14
\* C14: epoch_to_version is an error ("no replay version found") when the
\* index gives a target version id and no keyframe has an id <= it.
C14_NoKeyframeIsError ==
    (/\ Resolved
     /\ FindEpochToVersion(pre, last.arg).found
     /\ \A k \in DOMAIN pre.time_travel_version :
            k > FindEpochToVersion(pre, last.arg).version_id) =>
        /\ ~last.ok
        /\ last.result = ResolveErr("no replay version found")

\* A query whose target precedes the only keyframes the store holds.
C14_Witness ==
    /\ Resolved
    /\ FindEpochToVersion(pre, last.arg).found
    /\ pre.time_travel_version # EmptyFn
    /\ \A k \in DOMAIN pre.time_travel_version :
           k > FindEpochToVersion(pre, last.arg).version_id

\* ---- C15
\* C15: epoch_to_version leaves the four tables as they were, whether it
\* returns a version or an error.
C15_ResolveReadOnly ==
    Resolved =>
        /\ hummock_epoch_to_version = pre.epoch_to_version
        /\ hummock_time_travel_version = pre.time_travel_version
        /\ hummock_time_travel_delta = pre.time_travel_delta
        /\ hummock_sstable_info = pre.sstable_info

\* A resolve that replayed deltas and fetched files has returned a version.
C15_Witness ==
    /\ Resolved
    /\ last.ok
    /\ Store = pre
    /\ last.result.version.id > KeyframeOf(pre, last.arg).version_id
    /\ get_sst_ids(last.result.version) # {}

\* ---- C16
\* C16: after a truncate(w) that returned Ok, truncate(w) again returns Ok
\* and leaves the four tables as they are.
C16_TruncateRetry ==
    (last.op = "truncate" /\ last.ok) =>
        LET r == truncate_time_travel_metadata(Store, last.arg, NoFailure)
        IN /\ r.ok
           /\ TxnOutcome(Store, r) = Store

\* A truncate that found an anchor and deleted keyframes, deltas and files.
C16_Witness ==
    /\ last.op = "truncate"
    /\ last.ok
    /\ last.anchor # 0
    /\ DOMAIN hummock_time_travel_version # DOMAIN pre.time_travel_version
    /\ DOMAIN hummock_time_travel_delta # DOMAIN pre.time_travel_delta
    /\ DOMAIN hummock_sstable_info # DOMAIN pre.sstable_info

\* ---- C13
MissingSstIds ==
    get_sst_ids(resolving.actual_version) \ DOMAIN resolving.sst_id_to_info

\* C13: when a file id of the replayed version was not returned by the
\* registry fetches, epoch_to_version returns the error "some SstableInfos
\* not found" instead of refilling; a version it returns holds the full
\* record of every file, never a stripped one.
C13_MissingFileIsError ==
    resolving.pc = "done" =>
        /\ MissingSstIds # {} =>
               resolving.result = ResolveErr("some SstableInfos not found")
        /\ resolving.result.ok =>
               \A i \in 1..Len(get_sst_infos(resolving.result.version)) :
                   LET info == get_sst_infos(resolving.result.version)[i]
                   IN info = FullSst(info.sst_id)

\* A call whose replayed version references two files or more, one fetched
\* and one whose registry row was deleted before its fetch.
C13_Witness ==
    /\ resolving.pc = "done"
    /\ MissingSstIds # {}
    /\ DOMAIN resolving.sst_id_to_info # {}
    /\ ~resolving.result.ok

\* ---- C17
\* C17: write_time_travel_metadata called again with the version and delta
\* of a write that was applied returns Ok and leaves the four tables as the
\* first call left them.
C17_WriteRetry ==
    last.op = "write" =>
        LET r == write_time_travel_metadata(Store, last.result.version,
                                            last.result.delta)
        IN /\ r.ok
           /\ r.db = Store

\* ---- C18
\* C18: a call of epoch_to_version that has reached its registry-fetch loop
\* returns a version or an error, whatever batch size it has read.
C18_ResolveReturns ==
    (resolving.pc = "fetch") ~> (resolving.pc = "done")

\* ---- C19
FetchStageDone ==
    /\ resolving.pc = "done"
    /\ \/ resolving.result.ok
       \/ resolving.result = ResolveErr("some SstableInfos not found")

\* C19: with batch size b >= 1 and n file ids in the replayed version,
\* epoch_to_version issues ceil(n / b) registry fetches of at most b ids
\* each, every id is in exactly one of them, and the version returned holds
\* the full record of each of the n files.
C19_BatchedFetch ==
    (FetchStageDone /\ resolving.sst_info_fetch_batch_size >= 1) =>
        LET b         == resolving.sst_info_fetch_batch_size
            n         == resolving.sst_count
            requested == resolving.requested
        IN /\ n = Cardinality(get_sst_ids(resolving.actual_version))
           /\ Len(requested) = (n + b - 1) \div b
           /\ \A i \in 1..Len(requested) : Len(requested[i]) <= b
           /\ \A id \in get_sst_ids(resolving.actual_version) :
                  Cardinality({p \in {<<i, j>> : i \in 1..Len(requested),
                                                 j \in 1..MaxBatchSize + 1} :
                                  /\ p[2] <= Len(requested[p[1]])
                                  /\ requested[p[1]][p[2]] = id}) = 1
           /\ resolving.result.ok
           /\ get_sst_ids(resolving.result.version)
                  = get_sst_ids(resolving.actual_version)
           /\ \A i \in 1..Len(get_sst_infos(resolving.result.version)) :
                  LET info == get_sst_infos(resolving.result.version)[i]
                  IN info = FullSst(info.sst_id)

\* Batch size 2 and 5 file ids: 3 fetches, and a version is returned.
C19_Witness ==
    /\ resolving.pc = "done"
    /\ resolving.result.ok
    /\ resolving.sst_info_fetch_batch_size = 2
    /\ resolving.sst_count = 5
    /\ Len(resolving.requested) = 3

\* ---- C20
TimeTravelOps == {"truncate", "resolve", "all_object_ids"}

\* C20: when the meta store is not the SQL store, truncate, resolve and
\* all_object_ids_in_time_travel return the error of sql_store(), commit
\* nothing and leave the four tables as they were.
C20_ConfigError ==
    (meta_store # "Sql" /\ last.op \in TimeTravelOps) =>
        /\ ~last.ok
        /\ ~last.committed
        /\ last.result = ConfigErr
        /\ Store = pre

\* A truncate on a meta store that is not the SQL store.
C20_Witness ==
    /\ meta_store # "Sql"
    /\ last.op = "truncate"
    /\ ~last.ok

\* ---- C21
ScnBothWritten(db) ==
    /\ DOMAIN db.epoch_to_version = {10, 20}
    /\ DOMAIN db.time_travel_version = {1}

ScnTruncated(db) ==
    /\ DOMAIN db.epoch_to_version = {20}
    /\ DOMAIN db.time_travel_version = {1}

ScnResolvedTo(epoch, sst_ids) ==
    /\ last.ok
    /\ last.result.version = committed[epoch]
    /\ get_sst_ids(last.result.version) = sst_ids
    /\ \A i \in 1..Len(get_sst_infos(last.result.version)) :
           LET info == get_sst_infos(last.result.version)[i]
           IN info = FullSst(info.sst_id)

\* C21: once V0 (epoch 10, files 1 and 2) and D1 (epoch 20, adds file 3,
\* removes file 1) are written, resolve(15) returns V0 with files {1,2} and
\* resolve(25) returns the replayed and refilled version with files {2,3};
\* truncate(20) then returns Ok, the epoch-10 index row is gone, files 2 and
\* 3 are in the registry, and resolve(25) returns files {2,3} as before.
C21_Scenario ==
    /\ (Resolved /\ ScnBothWritten(pre) /\ last.arg = 15) =>
           /\ ScnResolvedTo(10, {1, 2})
           /\ last.result.version.id = 1
    /\ (Resolved /\ ScnBothWritten(pre) /\ last.arg = 25) =>
           /\ ScnResolvedTo(20, {2, 3})
           /\ last.result.version.id = 2
    /\ (last.op = "truncate" /\ last.arg = 20 /\ ScnBothWritten(pre)) =>
           /\ last.ok
           /\ DOMAIN hummock_epoch_to_version = {20}
           /\ {2, 3} \subseteq DOMAIN hummock_sstable_info
           /\ hummock_sstable_info[2].sstable_info = FullSst(2)
           /\ hummock_sstable_info[3].sstable_info = FullSst(3)
    /\ (Resolved /\ ScnTruncated(pre) /\ last.arg = 25) =>
           ScnResolvedTo(20, {2, 3})

\* resolve(25) after both writes and a truncate that removed the epoch-10
\* row has returned the version with files {2,3}.
C21_Witness ==
    /\ Resolved
    /\ last.arg = 25
    /\ ScnTruncated(pre)
    /\ last.ok
    /\ get_sst_ids(last.result.version) = {2, 3}

\* ---- C22
Written == last.op = "write"

\* The file ids the rows of db refer to that the rows of `before` do not.
NewlyReferenced(db, before) == ReferencedFrom(db, 0) \ ReferencedFrom(before, 0)

\* C22: a write(version?, delta) adds one index entry delta.max_committed_epoch
\* -> delta.id; adds the keyframe row of version.id when a version is given
\* and no keyframe row otherwise; adds the delta row of delta.id; and after
\* every statement of its transaction the files referenced by the rows added
\* so far are in the registry.
C22_WriteEffect ==
    Written =>
        LET version == last.result.version
            delta   == last.result.delta
            stmts   == WriteStatements(pre, version, delta)
        IN /\ delta.max_committed_epoch \notin DOMAIN pre.epoch_to_version
           /\ hummock_epoch_to_version =
                  Put(pre.epoch_to_version, delta.max_committed_epoch, delta.id)
           /\ DOMAIN hummock_time_travel_version =
                  DOMAIN pre.time_travel_version
                      \cup (IF version.some THEN {version.version.id} ELSE {})
           /\ version.some =>
                  /\ version.version.id \notin DOMAIN pre.time_travel_version
                  /\ hummock_time_travel_version[version.version.id] =
                         IncompleteHummockVersion(version.version)
                  /\ get_sst_ids(version.version) \subseteq DOMAIN hummock_sstable_info
           /\ delta.id \notin DOMAIN pre.time_travel_delta
           /\ DOMAIN hummock_time_travel_delta =
                  DOMAIN pre.time_travel_delta \cup {delta.id}
           /\ hummock_time_travel_delta[delta.id] =
                  IncompleteHummockVersionDelta(delta)
           /\ newly_added_sst_ids(delta) \subseteq DOMAIN hummock_sstable_info
           /\ stmts[Len(stmts)] = Store
           /\ \A i \in 1..Len(stmts) :
                  NewlyReferenced(stmts[i], pre) \subseteq DOMAIN stmts[i].sstable_info

\* A write with a version whose files are not all added by its delta, which
\* put a file of the version and a file of the delta into the registry.
C22_Witness ==
    /\ Written
    /\ last.result.version.some
    /\ get_sst_ids(last.result.version.version)
           \ newly_added_sst_ids(last.result.delta) # {}
    /\ (get_sst_ids(last.result.version.version)
           \ newly_added_sst_ids(last.result.delta))
           \ DOMAIN pre.sstable_info # {}
    /\ newly_added_sst_ids(last.result.delta) \ DOMAIN pre.sstable_info # {}

\* ---- C23
\* C23: a write whose epoch is not indexed returns Ok also when its
\* version id has a keyframe row or its delta id has a delta row, and every
\* write leaves each keyframe row, delta row and registry row that existed
\* in place with the content it had.
C23_InsertOrIgnore ==
    Written =>
        /\ last.result.delta.max_committed_epoch \notin DOMAIN pre.epoch_to_version
               => last.ok
        /\ \A k \in DOMAIN pre.time_travel_version :
               /\ k \in DOMAIN hummock_time_travel_version
               /\ hummock_time_travel_version[k] = pre.time_travel_version[k]
        /\ \A k \in DOMAIN pre.time_travel_delta :
               /\ k \in DOMAIN hummock_time_travel_delta
               /\ hummock_time_travel_delta[k] = pre.time_travel_delta[k]
        /\ \A k \in DOMAIN pre.sstable_info :
               /\ k \in DOMAIN hummock_sstable_info
               /\ hummock_sstable_info[k] = pre.sstable_info[k]

\* A write that returned Ok with a version and a delta whose ids had rows
\* of another content.
C23_Witness ==
    /\ Written
    /\ last.ok
    /\ last.result.version.some
    /\ last.result.delta.id \in DOMAIN pre.time_travel_delta
    /\ pre.time_travel_delta[last.result.delta.id]
           # IncompleteHummockVersionDelta(last.result.delta)
    /\ last.result.version.version.id \in DOMAIN pre.time_travel_version
    /\ pre.time_travel_version[last.result.version.version.id]
           # IncompleteHummockVersion(last.result.version.version)

\* ---- C24
\* C24: in every state reached by the pipeline's writes and truncates the
\* index maps each epoch to one version id, version ids do not decrease as
\* the epoch increases, every write appends an epoch above all indexed
\* epochs, and a truncate removes a prefix of the index and leaves the other
\* entries as they were.
C24_EpochIndexOrder ==
    /\ \A e1, e2 \in DOMAIN hummock_epoch_to_version :
           e1 < e2 => hummock_epoch_to_version[e1] <= hummock_epoch_to_version[e2]
    /\ Written =>
           /\ \A e \in DOMAIN pre.epoch_to_version :
                  /\ e < last.arg
                  /\ pre.epoch_to_version[e] <= hummock_epoch_to_version[last.arg]
           /\ last.arg \in DOMAIN hummock_epoch_to_version
    /\ last.op = "truncate" =>
           /\ \A e \in DOMAIN pre.epoch_to_version \ DOMAIN hummock_epoch_to_version :
                  \A f \in DOMAIN hummock_epoch_to_version : e < f
           /\ \A f \in DOMAIN hummock_epoch_to_version :
                  /\ f \in DOMAIN pre.epoch_to_version
                  /\ hummock_epoch_to_version[f] = pre.epoch_to_version[f]

\* A truncate that removed index entries and left two or more.
C24_Witness ==
    /\ last.op = "truncate"
    /\ DOMAIN pre.epoch_to_version # DOMAIN hummock_epoch_to_version
    /\ Cardinality(DOMAIN hummock_epoch_to_version) >= 2

\* ---- C25
\* The deltas epoch_to_version(e) loads on db, and the running version of
\* replay_archive after the first i of them.
LoadedDeltas(db, e) ==
    FindDeltas(db, KeyframeOf(db, e).version_id, TargetOf(db, e).version_id)

ReplayPrefix(db, e, i) ==
    replay_archive(KeyframeOf(db, e).version, SubSeq(LoadedDeltas(db, e), 1, i))

Replayed == Resolved /\ TargetOf(pre, last.arg).found /\ KeyframeOf(pre, last.arg).found

\* C25: in replay_archive the version a delta is applied to is the running
\* version with its id raised to the delta's prev_id and nothing else
\* changed (files, watermarks, change log); no delta panics; the version
\* after the last delta, and the version epoch_to_version returns, have the
\* target version id of the epoch index.
C25_ReplayAcrossGaps ==
    Replayed =>
        LET deltas == LoadedDeltas(pre, last.arg)
        IN /\ \A i \in 1..Len(deltas) :
                  LET running == ReplayPrefix(pre, last.arg, i - 1)
                      d       == from_persisted_protobuf(deltas[i])
                      next    == ReplayPrefix(pre, last.arg, i)
                  IN /\ ~running.panic
                     /\ running.version.id <= d.prev_id
                     /\ ~next.panic
                     /\ next.version =
                            apply_version_delta(
                                [running.version EXCEPT !.id = d.prev_id], d)
           /\ ReplayPrefix(pre, last.arg, Len(deltas)).version.id
                  = TargetOf(pre, last.arg).version_id
           /\ last.ok => last.result.version.id = TargetOf(pre, last.arg).version_id

\* A resolve that returned a version after replaying a delta whose prev_id
\* was above the running id, and another delta after it.
C25_Witness ==
    /\ Replayed
    /\ last.ok
    /\ \E i \in 1..Len(LoadedDeltas(pre, last.arg)) :
           /\ ReplayPrefix(pre, last.arg, i - 1).version.id
                  < LoadedDeltas(pre, last.arg)[i].prev_id
           /\ i < Len(LoadedDeltas(pre, last.arg))

\* ---- C26
\* C26: epoch_to_version replays from the keyframe of the greatest id <= the
\* target version id, on exactly the delta rows with keyframe id < id <=
\* target id, each once and in ascending id order, and the version it
\* returns is the refilled result of that replay.
C26_ReplayRange ==
    Replayed =>
        LET T      == TargetOf(pre, last.arg).version_id
            K      == KeyframeOf(pre, last.arg).version_id
            loaded == LoadedDeltas(pre, last.arg)
        IN /\ K \in DOMAIN pre.time_travel_version
           /\ K <= T
           /\ \A k \in DOMAIN pre.time_travel_version : ~(K < k /\ k <= T)
           /\ KeyframeOf(pre, last.arg).version = pre.time_travel_version[K]
           /\ \A i \in 1..Len(loaded) :
                  /\ K < loaded[i].id
                  /\ loaded[i].id <= T
                  /\ loaded[i] = pre.time_travel_delta[loaded[i].id]
           /\ \A i, j \in 1..Len(loaded) : i < j => loaded[i].id < loaded[j].id
           /\ {loaded[i].id : i \in 1..Len(loaded)} =
                  {k \in DOMAIN pre.time_travel_delta : K < k /\ k <= T}
           /\ last.ok =>
                  IncompleteHummockVersion(last.result.version) =
                      ReplayPrefix(pre, last.arg, Len(loaded)).version

\* A resolve that returned a version after replaying two deltas or more,
\* on a store with a delta at or below the keyframe it chose.
C26_Witness ==
    /\ Replayed
    /\ last.ok
    /\ Len(LoadedDeltas(pre, last.arg)) >= 2
    /\ \E k \in DOMAIN pre.time_travel_delta :
           k <= KeyframeOf(pre, last.arg).version_id

\* ---- C27
Truncated == last.op = "truncate"

\* The index rows of db below w, and the version id V of the greatest.
OldEpochs(db, w) == {e \in DOMAIN db.epoch_to_version : e < w}
WatermarkVersionId(db, w) == db.epoch_to_version[Max(OldEpochs(db, w))]

\* The keyframe ids of db that are <= the version id v.
KeyframesUpTo(db, v) == {k \in DOMAIN db.time_travel_version : k <= v}

\* C27: truncate(w) on a store with no index entry of epoch < w returns Ok
\* and leaves the four tables as they were; an entry of epoch w is not old.
C27_NothingOld ==
    (Truncated /\ OldEpochs(pre, last.arg) = {}) =>
        /\ last.ok
        /\ Store = pre

\* A truncate(w) on a store with an index entry at w, none below, and
\* keyframes, deltas and files.
C27_Witness ==
    /\ Truncated
    /\ OldEpochs(pre, last.arg) = {}
    /\ last.arg \in DOMAIN pre.epoch_to_version
    /\ pre.time_travel_version # EmptyFn
    /\ pre.time_travel_delta # EmptyFn
    /\ pre.sstable_info # EmptyFn

\* ---- C28
\* C28: after a truncate(w) that returned Ok and found an index entry of
\* epoch < w, the index holds exactly the entries it had with epoch >= w,
\* each with the version id it had.
C28_IndexAfterTruncate ==
    (Truncated /\ last.ok /\ OldEpochs(pre, last.arg) # {}) =>
        /\ DOMAIN hummock_epoch_to_version =
               {e \in DOMAIN pre.epoch_to_version : e >= last.arg}
        /\ \A e \in DOMAIN hummock_epoch_to_version :
               hummock_epoch_to_version[e] = pre.epoch_to_version[e]

\* A truncate that removed two entries or more and kept two or more, one of
\* them at the watermark.
C28_Witness ==
    /\ Truncated
    /\ last.ok
    /\ Cardinality(OldEpochs(pre, last.arg)) >= 2
    /\ Cardinality(DOMAIN hummock_epoch_to_version) >= 2
    /\ last.arg \in DOMAIN hummock_epoch_to_version

\* ---- C29
\* C29: a truncate(w) that finds index entries below w and no keyframe of
\* id <= V returns Ok having committed the index deletions alone: keyframe
\* rows, delta rows and registry rows are as they were.
C29_NoAnchor ==
    (/\ Truncated
     /\ OldEpochs(pre, last.arg) # {}
     /\ KeyframesUpTo(pre, WatermarkVersionId(pre, last.arg)) = {}) =>
        /\ last.ok
        /\ last.committed
        /\ DOMAIN hummock_epoch_to_version =
               {e \in DOMAIN pre.epoch_to_version : e >= last.arg}
        /\ hummock_time_travel_version = pre.time_travel_version
        /\ hummock_time_travel_delta = pre.time_travel_delta
        /\ hummock_sstable_info = pre.sstable_info

\* Such a truncate on a store that holds later keyframes, deltas below
\* them and files, and whose index it emptied in part.
C29_Witness ==
    /\ Truncated
    /\ OldEpochs(pre, last.arg) # {}
    /\ KeyframesUpTo(pre, WatermarkVersionId(pre, last.arg)) = {}
    /\ pre.time_travel_version # EmptyFn
    /\ \E d \in DOMAIN pre.time_travel_delta :
           \E k \in DOMAIN pre.time_travel_version : d < k
    /\ hummock_epoch_to_version # pre.epoch_to_version
    /\ hummock_epoch_to_version # EmptyFn

\* ---- C30
\* C30: a truncate(w) that finds the anchor K, the greatest keyframe id
\* <= V, leaves the keyframe K and every keyframe row and delta row of
\* id >= K in place with the content it had.
C30_AnchorRetained ==
    (/\ Truncated
     /\ OldEpochs(pre, last.arg) # {}
     /\ KeyframesUpTo(pre, WatermarkVersionId(pre, last.arg)) # {}) =>
        LET K == Max(KeyframesUpTo(pre, WatermarkVersionId(pre, last.arg)))
        IN /\ last.ok
           /\ last.anchor = K
           /\ K \in DOMAIN hummock_time_travel_version
           /\ \A k \in DOMAIN pre.time_travel_version :
                  k >= K => /\ k \in DOMAIN hummock_time_travel_version
                            /\ hummock_time_travel_version[k] = pre.time_travel_version[k]
           /\ \A d \in DOMAIN pre.time_travel_delta :
                  d >= K => /\ d \in DOMAIN hummock_time_travel_delta
                            /\ hummock_time_travel_delta[d] = pre.time_travel_delta[d]

\* Such a truncate that removed a keyframe and a delta below the anchor and
\* kept a keyframe and a delta above it.
C30_Witness ==
    /\ Truncated
    /\ OldEpochs(pre, last.arg) # {}
    /\ KeyframesUpTo(pre, WatermarkVersionId(pre, last.arg)) # {}
    /\ DOMAIN pre.time_travel_version \ DOMAIN hummock_time_travel_version # {}
    /\ DOMAIN pre.time_travel_delta \ DOMAIN hummock_time_travel_delta # {}
    /\ \E k \in DOMAIN hummock_time_travel_version : k > last.anchor
    /\ \E d \in DOMAIN hummock_time_travel_delta : d > last.anchor

\* ---- C31
\* The keyframe of db that is visited just before keyframe k when the
\* keyframes are walked downwards from K: the least keyframe id above k.
VisitedBefore(db, k) ==
    CHOOSE n \in DOMAIN db.time_travel_version :
        /\ n > k
        /\ \A x \in DOMAIN db.time_travel_version : x > k => n <= x

\* Files added by a removable delta that keyframe K does not hold.
DeletedForDeltas(db, K) ==
    UNION {DeltaSstIds(db, d) \ VersionSstIds(db, K) :
              d \in {x \in DOMAIN db.time_travel_delta : x < K}}

\* Files of a removable keyframe that the keyframe visited before it does
\* not hold.
DeletedForVersions(db, K) ==
    UNION {VersionSstIds(db, k) \ VersionSstIds(db, VisitedBefore(db, k)) :
              k \in {x \in DOMAIN db.time_travel_version : x < K}}

\* C31: the registry rows a truncate with anchor K deletes are those of the
\* file ids in (newly added ids of a delta of id < K) - (ids of keyframe K)
\* and in (ids of a keyframe of id < K) - (ids of the keyframe visited
\* before it, walking down from K); every other registry row stays as it was.
C31_DeletedFiles ==
    TruncateFoundAnchor =>
        /\ DOMAIN pre.sstable_info \ DOMAIN hummock_sstable_info =
               (DeletedForDeltas(pre, last.anchor)
                    \cup DeletedForVersions(pre, last.anchor))
                   \cap DOMAIN pre.sstable_info
        /\ \A k \in DOMAIN hummock_sstable_info :
               /\ k \in DOMAIN pre.sstable_info
               /\ hummock_sstable_info[k] = pre.sstable_info[k]

\* A truncate that walked two removable keyframes with different files and
\* deleted a file for a delta and a file for a keyframe.
C31_Witness ==
    /\ TruncateFoundAnchor
    /\ \E p2, p1 \in DOMAIN pre.time_travel_version :
           /\ p2 < p1
           /\ p1 < last.anchor
           /\ VersionSstIds(pre, p2) \ VersionSstIds(pre, p1) # {}
    /\ DeletedForDeltas(pre, last.anchor) \cap DOMAIN pre.sstable_info # {}
    /\ DeletedForVersions(pre, last.anchor) \cap DOMAIN pre.sstable_info # {}

\* ---- C32
\* The files of a stripped list: same length, same sst_id at every position,
\* every other file field at its default.
StrippedFiles(stripped, origin) ==
    /\ Len(stripped) = Len(origin)
    /\ \A i \in 1..Len(origin) :
           stripped[i] = [sst_id |-> origin[i].sst_id, object_id |-> 0, file_size |-> 0]

StrippedLevelOf(s, o) ==
    /\ StrippedFiles(s.table_infos, o.table_infos)
    /\ s.level_idx = o.level_idx
    /\ s.total_file_size = o.total_file_size
    /\ s.sub_level_id = o.sub_level_id

StrippedLogOf(s, o) ==
    /\ StrippedFiles(s.old_value, o.old_value)
    /\ StrippedFiles(s.new_value, o.new_value)
    /\ s.epochs = o.epochs

StrippedVersionOf(s, v) ==
    /\ s.id = v.id
    /\ s.max_committed_epoch = v.max_committed_epoch
    /\ s.safe_epoch = v.safe_epoch
    /\ s.table_watermarks = v.table_watermarks
    /\ s.state_table_info = v.state_table_info
    /\ DOMAIN s.levels = DOMAIN v.levels
    /\ \A g \in DOMAIN v.levels :
           /\ s.levels[g].group_id = v.levels[g].group_id
           /\ s.levels[g].l0.total_file_size = v.levels[g].l0.total_file_size
           /\ Len(s.levels[g].levels) = Len(v.levels[g].levels)
           /\ \A i \in 1..Len(v.levels[g].levels) :
                  StrippedLevelOf(s.levels[g].levels[i], v.levels[g].levels[i])
           /\ Len(s.levels[g].l0.sub_levels) = Len(v.levels[g].l0.sub_levels)
           /\ \A i \in 1..Len(v.levels[g].l0.sub_levels) :
                  StrippedLevelOf(s.levels[g].l0.sub_levels[i],
                                  v.levels[g].l0.sub_levels[i])
    /\ DOMAIN s.table_change_log = DOMAIN v.table_change_log
    /\ \A t \in DOMAIN v.table_change_log :
           /\ Len(s.table_change_log[t]) = Len(v.table_change_log[t])
           /\ \A i \in 1..Len(v.table_change_log[t]) :
                  StrippedLogOf(s.table_change_log[t][i], v.table_change_log[t][i])

StrippedGroupDeltaOf(s, o) ==
    IF o.delta_type = "IntraLevel"
    THEN /\ s.delta_type = "IntraLevel"
         /\ s.level_idx = o.level_idx
         /\ s.l0_sub_level_id = o.l0_sub_level_id
         /\ s.removed_table_ids = o.removed_table_ids
         /\ StrippedFiles(s.inserted_table_infos, o.inserted_table_infos)
    ELSE s = o

StrippedDeltaOf(s, d) ==
    /\ s.id = d.id
    /\ s.prev_id = d.prev_id
    /\ s.max_committed_epoch = d.max_committed_epoch
    /\ s.safe_epoch = d.safe_epoch
    /\ s.trivial_move = d.trivial_move
    /\ s.new_table_watermarks = d.new_table_watermarks
    /\ s.removed_table_ids = d.removed_table_ids
    /\ s.state_table_info_delta = d.state_table_info_delta
    /\ DOMAIN s.group_deltas = DOMAIN d.group_deltas
    /\ \A g \in DOMAIN d.group_deltas :
           /\ Len(s.group_deltas[g]) = Len(d.group_deltas[g])
           /\ \A i \in 1..Len(d.group_deltas[g]) :
                  StrippedGroupDeltaOf(s.group_deltas[g][i], d.group_deltas[g][i])
    /\ DOMAIN s.change_log_delta = DOMAIN d.change_log_delta
    /\ \A t \in DOMAIN d.change_log_delta :
           /\ s.change_log_delta[t].truncate_epoch = d.change_log_delta[t].truncate_epoch
           /\ StrippedLogOf(s.change_log_delta[t].new_log, d.change_log_delta[t].new_log)

VersionStripped == current_version.id \in DOMAIN hummock_time_travel_version

DeltaStripped ==
    /\ last.op = "strip_delta"
    /\ last.arg \in DOMAIN hummock_time_travel_delta

\* C32: the stripped encoding of a version or of a delta has, at every
\* position of every tier, L0 sub-level, inserted-file list and change-log
\* old/new list, a record with the same sst_id and every other file field
\* defaulted; removed-file ids, epochs, watermarks and state-table info are
\* copied; the file-id set is unchanged and stripping again changes nothing.
C32_Strip ==
    /\ VersionStripped =>
           LET s == hummock_time_travel_version[current_version.id]
           IN /\ StrippedVersionOf(s, current_version)
              /\ get_sst_ids(from_persisted_protobuf(s)) = get_sst_ids(current_version)
              /\ IncompleteHummockVersion(from_persisted_protobuf(s)) = s
    /\ DeltaStripped =>
           LET s == hummock_time_travel_delta[last.arg]
               d == last.result.delta
           IN /\ StrippedDeltaOf(s, d)
              /\ newly_added_sst_ids(s) = newly_added_sst_ids(d)
              /\ IncompleteHummockVersionDelta(s) = s

C32_Witness ==
    /\ VersionStripped
    /\ DeltaStripped
    /\ Len(current_version.levels[GroupId].levels[1].table_infos) = 2
    /\ current_version.levels[GroupId].l0.sub_levels # <<>>
    /\ current_version.table_change_log[TableId][1].old_value # <<>>
    /\ LET d == last.result.delta
       IN /\ Len(d.group_deltas[GroupId]) = 3
          /\ Len(d.group_deltas[GroupId][1].inserted_table_infos) = 2
          /\ d.group_deltas[GroupId][1].inserted_table_infos[1].sst_id
                 > d.group_deltas[GroupId][1].inserted_table_infos[2].sst_id
          /\ d.group_deltas[GroupId][1].removed_table_ids # {}
          /\ d.change_log_delta[TableId].new_log.new_value # <<>>
          /\ hummock_time_travel_delta[last.arg] # d

\* ---- C33
\* The store after one truncate that runs to its end.
TruncatedAt(db, w) == TxnOutcome(db, truncate_time_travel_metadata(db, w, NoFailure))

\* C33: for watermarks w1 <= w2, truncate(w1) followed by truncate(w2) leaves
\* the four tables as truncate(w2) alone does, and truncate(w1) after
\* truncate(w2) changes nothing.
C33_SerialTruncates ==
    \A w2 \in QueryEpochsDeep :
        \E alone \in {TruncatedAt(Store, w2)} :
            \A w1 \in 1..w2 :
                /\ TruncatedAt(TruncatedAt(Store, w1), w2) = alone
                /\ TruncatedAt(alone, w1) = alone

\* Two truncates have run one after the other, both found an anchor and both
\* removed rows: the second one's input no longer has the first delta.
C33_Witness ==
    /\ TruncateFoundAnchor
    /\ Store # pre
    /\ pre.time_travel_delta # EmptyFn
    /\ 1 \notin DOMAIN pre.time_travel_delta
    /\ \E w1 \in 1..last.arg :
           /\ TruncatedAt(pre, w1) = pre
           /\ DOMAIN pre.epoch_to_version # {}
           /\ \A e \in DOMAIN pre.epoch_to_version : e >= w1

\* ---- C34
IndexedUpTo(db, e) == {x \in DOMAIN db.epoch_to_version : x <= e}

\* C34: a resolve that succeeds returns a version whose max_committed_epoch is
\* the epoch of the greatest index entry at or below the query epoch, hence
\* at most the query epoch.
C34_ResolvedEpoch ==
    (Resolved /\ last.ok) =>
        /\ IndexedUpTo(pre, last.arg) # {}
        /\ last.result.version.max_committed_epoch = Max(IndexedUpTo(pre, last.arg))
        /\ last.result.version.max_committed_epoch <= last.arg

\* A successful resolve of an epoch that is not indexed, with a lower index
\* entry that is not the greatest one below it, answered by replaying a delta.
C34_Witness ==
    /\ Resolved
    /\ last.ok
    /\ last.arg \notin DOMAIN pre.epoch_to_version
    /\ Cardinality(IndexedUpTo(pre, last.arg)) >= 2
    /\ \E x \in DOMAIN pre.epoch_to_version : x > last.arg
    /\ last.result.version.id \notin DOMAIN pre.time_travel_version

\* ---- C35
\* C35: on every store reached by chained writes interleaved with truncates,
\* the replay of a resolve never meets a delta whose prev_id lies below the
\* running version id, and at each apply step the running id (after the id
\* advance) equals the delta's prev_id, so the replay does not panic.
C35_ReplayNeverBehind ==
    Replayed =>
        \A i \in 1..Len(LoadedDeltas(pre, last.arg)) :
            \E running \in {ReplayPrefix(pre, last.arg, i - 1)} :
            \E d \in {from_persisted_protobuf(LoadedDeltas(pre, last.arg)[i])} :
                /\ ~running.panic
                /\ ~(d.prev_id < running.version.id)
                /\ AdvanceId(running.version, d.prev_id).id = d.prev_id
                /\ ~ReplayPrefix(pre, last.arg, i).panic

\* A resolve on a store that a truncate has shortened (the first delta is
\* gone) replayed from the retained keyframe a delta whose prev_id was above
\* the running id.
C35_Witness ==
    /\ Replayed
    /\ last.ok
    /\ pre.time_travel_delta # EmptyFn
    /\ 1 \notin DOMAIN pre.time_travel_delta
    /\ Len(LoadedDeltas(pre, last.arg)) >= 1
    /\ ReplayPrefix(pre, last.arg, 0).version.id < LoadedDeltas(pre, last.arg)[1].prev_id

\* ---- C36
Listed == last.op = "all_object_ids" /\ last.ok

\* C36: all_object_ids_in_time_travel returns exactly the object ids of the
\* rows the registry holds, and among them the object id of every file that
\* a retained keyframe or a retained delta references.
C36_AllObjectIds ==
    Listed =>
        /\ last.result.object_ids =
               {pre.sstable_info[k].object_id : k \in DOMAIN pre.sstable_info}
        /\ \A f \in ReferencedFrom(pre, 0) :
               /\ f \in DOMAIN pre.sstable_info
               /\ pre.sstable_info[f].object_id \in last.result.object_ids
               /\ FullSst(f).object_id \in last.result.object_ids

\* A listing after a truncate has deleted registry rows, with keyframes and
\* deltas retained and with files still referenced.
C36_Witness ==
    /\ Listed
    /\ 1 \notin DOMAIN pre.time_travel_delta
    /\ pre.time_travel_delta # EmptyFn
    /\ pre.time_travel_version # EmptyFn
    /\ \E f \in 1..(MaxCommits + MaxCompactions + 1) :
           /\ f \notin DOMAIN pre.sstable_info
           /\ \E g \in DOMAIN pre.sstable_info : f < g
    /\ Cardinality(last.result.object_ids) >= 2

\* ---- C37
RECURSIVE SumCost(_)
SumCost(q) == IF q = <<>> THEN 0 ELSE Head(q).cost + SumCost(Tail(q))

\* C37: after any sequence of insert, evict and clear, size() is the sum of
\* cost() over the queued items, count() is the number of queued items, and
\* is_full() holds exactly when that sum is greater than the capacity.
C37_CostAccounting ==
    /\ size = SumCost(queue)
    /\ count = Len(history.inserted) - Len(history.evicted)
    /\ is_full <=> SumCost(queue) > capacity

\* After an evict of the first of three inserted items: two items are
\* queued and their costs exceed the capacity.
C37_Witness ==
    /\ returned.op = "evict"
    /\ returned.value.some
    /\ Len(queue) = 2
    /\ SumCost(queue) > capacity
    /\ capacity > 0
    /\ is_full

\* ---- C38
\* The items of q without their marks.
Unmarked(q) == [i \in 1..Len(q) |-> unmark(q[i])]

\* C38: evict hands the items out in the order of their insertion; on an
\* empty queue it returns None and changes nothing; an item is marked small
\* while it is queued and unmarked when evict returns it.
C38_Fifo ==
    /\ history.evicted \o Unmarked(queue) = history.inserted
    /\ \A i \in 1..Len(queue) : queue[i].flag = "small"
    /\ \A i \in 1..Len(history.evicted) : history.evicted[i].flag = "none"
    /\ returned.op = "evict" =>
           IF returned.before.queue = <<>>
           THEN /\ returned.value = None
                /\ queue = returned.before.queue
                /\ cost = returned.before.cost
           ELSE /\ returned.value = Some(unmark(Head(returned.before.queue)))
                /\ queue = Tail(returned.before.queue)
                /\ returned.value.value = history.evicted[Len(history.evicted)]

\* Three different items were inserted and all of them evicted, and a
\* further evict found the queue empty.
C38_Witness ==
    /\ returned.op = "evict"
    /\ ~returned.value.some
    /\ returned.before.queue = <<>>
    /\ Len(history.inserted) = 3
    /\ Len(history.evicted) = 3
    /\ history.inserted[1] # history.inserted[2]
    /\ history.inserted[2] # history.inserted[3]
    /\ history.inserted[1] # history.inserted[3]

\* ---- C39
\* start, start + step, ... up to stop.
ExpectedSeries ==
    [i \in 1..((stop - start) \div step + 1) |-> start + (i - 1) * step]

SeriesAsExpected ==
    LET emitted == Concat(stream.chunks)
    IN /\ stream.state # "panicked"
       /\ Len(emitted) <= Len(ExpectedSeries)
       /\ emitted = SubSeq(ExpectedSeries, 1, Len(emitted))
       /\ \A i \in 1..Len(stream.chunks) :
              /\ stream.chunks[i] # <<>>
              /\ Len(stream.chunks[i]) <= DEFAULT_CHUNK_BUFFER_SIZE
              /\ i < Len(stream.chunks) =>
                     Len(stream.chunks[i]) = DEFAULT_CHUNK_BUFFER_SIZE
       /\ stream.state = "ended" => emitted = ExpectedSeries
       /\ (stream.state = "running" /\ emitted = ExpectedSeries) => cur > stop

\* C39: with step > 0 and start <= stop the executor emits exactly start,
\* start + step, ... up to stop, in order, (stop - start) / step + 1 values
\* in all, in chunks of DEFAULT_CHUNK_BUFFER_SIZE values except possibly the
\* last, and then the stream ends.
C39_Series == (step > 0 /\ start <= stop) => SeriesAsExpected

\* The same for the series whose last value plus step is still an i32.
C39_SeriesInRange ==
    (step > 0 /\ start <= stop /\ stop <= I32Max - step) => SeriesAsExpected

\* A stream that ended after a full chunk and a shorter last one.
C39_WitnessInRange ==
    /\ stream.state = "ended"
    /\ stop <= I32Max - step
    /\ step > 1
    /\ Len(stream.chunks) >= 2
    /\ Len(stream.chunks[Len(stream.chunks)]) < DEFAULT_CHUNK_BUFFER_SIZE

====
